---- MODULE Spec2Model ----
(***************************************************************************)
(* A model of the snowball parameter contract and of the dynamic-fee gas   *)
(* engine of avalanchego: snowball.Parameters.Verify, the fee Calculator   *)
(* (NewUpdatedManager, TargetGas, CumulateGas, RemoveGas, fakeExponential) *)
(* and the leaky-bucket GasCap / UpdateGasCap.                             *)
(*                                                                         *)
(* uint64 values are scaled to the range 0..MaxUint64; every unchecked Go  *)
(* operation wraps modulo MaxUint64 + 1, every safemath operation reports  *)
(* an overflow instead.  time.Time values are counted in ticks of          *)
(* 1/TicksPerSecond seconds, so that Unix() truncates.                     *)
(***************************************************************************)
EXTENDS Integers, Sequences, FiniteSets, TLC

VARIABLES
    params,      \* snowball.Parameters handed to the engine
    verifyErr,   \* what Parameters.Verify returned for params (NotVerified before the call)
    tally,       \* the votes of the last closed poll: BlockID -> aggregate weight
    feesConfig,  \* DynamicFeesConfig of the chain
    chainExcess, \* excess gas stored by the last accepted block
    chainTime,   \* timestamp of the last accepted block, in ticks
    calc,        \* the Calculator of the block being built (NilCalculator when none)
    last,        \* the last Calculator call: operation, argument, error, Calculator before it
    block,       \* bookkeeping of the block being built: parent excess, target, gas cumulated
    onTarget,    \* TRUE while the chain started at excess 0 and every block consumed its target
    bucket,      \* leaky bucket: current capacity, last block time, last GasCap call
    expIn,       \* arguments of fakeExponential
    expOut,      \* its result (done = FALSE before the call)
    expPair,     \* fakeExponential called for two excess values n1 <= n2
    loop,        \* fakeExponential run one loop iteration at a time
    timeCall,    \* one call of TargetGas, GasCap or NewUpdatedManager for a pair of block times
    dims,        \* Dimensions a, b and weights w with the results of Add and ToGas
    cache,       \* lru.SizedCache: elements oldest first, maxSize, currentSize
    engine,      \* Snowman preference tree and the decisions emitted so far
    sched,       \* poll scheduler: the polls opened, their tallies, the polls delivered
    initializer  \* subprocess initializer and the goroutines calling Initialize on it

vars == <<params, verifyErr, tally, feesConfig, chainExcess, chainTime, calc,
          last, block, onTarget, bucket, expIn, expOut,
          expPair, loop, timeCall, dims, cache, engine, sched, initializer>>

paramsVars == <<params, verifyErr, tally>>
feeVars == <<feesConfig, chainExcess, chainTime, calc, last, block, onTarget>>
bucketVars == <<bucket>>
expVars == <<expIn, expOut>>
otherVars == <<expPair, loop, timeCall, dims, cache, engine, sched, initializer>>
baseVars == <<paramsVars, feeVars, bucketVars, expVars>>

(***************************************************************************)
(* Bounds of the model.                                                    *)
(***************************************************************************)
MaxK == 3
MaxBeta == 3
MaxWeight == 2
NumBlockIDs == 3
\* math.MaxUint64, scaled: Gas and GasPrice values range over 0 .. MaxUint64.
MaxUint64 == 15
\* Resolution of time.Time: Unix() drops the ticks below a second.
TicksPerSecond == 2
\* Latest block timestamp, in ticks.
MaxTime == 3
\* Largest MinGasPrice and UpdateDenominator of a configuration.
MaxMinGasPrice == 2
MaxDenominator == 2
\* Latest block timestamp of the leaky bucket runs, in ticks, and the largest
\* LeakGasCoeff of a configuration.
MaxBucketTime == 5
MaxLeakGasCoeff == 2
\* Largest maxSize of a SizedCache, number of keys put into it and number
\* of calls made on it.
MaxCacheSize == 4
NumCacheKeys == 3
MaxCacheOps == 4
\* Number of blocks proposed on top of the genesis and number of polls the
\* Decision Machine records.
NumEngineBlocks == 3
MaxEnginePolls == 4
\* Number of polls the Poll Scheduler opens.
MaxSchedPolls == 3
\* Number of goroutines that call Initialize on one initializer.
NumCallers == 3

(***************************************************************************)
(* Go integer arithmetic.                                                  *)
(***************************************************************************)
\* Go's int division truncates toward zero; TLA+'s \div floors.
GoDiv(a, b) ==
    IF a >= 0 THEN a \div b ELSE -((-a) \div b)

Min(a, b) == IF a <= b THEN a ELSE b

Max(a, b) == IF a >= b THEN a ELSE b

(***************************************************************************)
(* snowball.Parameters                                                     *)
(***************************************************************************)
EasterBetaRogue == 3
EasterBetaVirtuous == 28

DefaultParameters ==
    [K |-> 20, AlphaPreference |-> 15, AlphaConfidence |-> 15,
     BetaVirtuous |-> 15, BetaRogue |-> 20, ConcurrentRepolls |-> 4,
     OptimalProcessing |-> 10, MaxOutstandingItems |-> 256,
     MaxItemProcessingTime |-> 30]

NoError == [kind |-> "nil", cond |-> "", egg |-> FALSE]

\* Verify has not been called yet.
NotVerified == [kind |-> "unset", cond |-> "", egg |-> FALSE]

ParametersInvalid(c) == [kind |-> "ErrParametersInvalid", cond |-> c, egg |-> FALSE]

\* A plausible slip: alphaConfidence = k rejected.
VerifyStrictK(p) ==
    CASE p.AlphaPreference <= GoDiv(p.K, 2) -> ParametersInvalid("k/2 < alphaPreference")
      [] p.AlphaConfidence < p.AlphaPreference -> ParametersInvalid("alphaPreference <= alphaConfidence")
      [] p.K <= p.AlphaConfidence -> ParametersInvalid("alphaConfidence <= k")
      [] p.BetaVirtuous <= 0 -> ParametersInvalid("0 < betaVirtuous")
      [] p.BetaRogue < p.BetaVirtuous -> ParametersInvalid("betaVirtuous <= betaRogue")
      [] p.ConcurrentRepolls <= 0 -> ParametersInvalid("0 < concurrentRepolls")
      [] p.ConcurrentRepolls > p.BetaRogue -> ParametersInvalid("concurrentRepolls <= betaRogue")
      [] p.OptimalProcessing <= 0 -> ParametersInvalid("0 < optimalProcessing")
      [] p.MaxOutstandingItems <= 0 -> ParametersInvalid("0 < maxOutstandingItems")
      [] p.MaxItemProcessingTime <= 0 -> ParametersInvalid("0 < maxItemProcessingTime")
      [] OTHER -> NoError

\* A plausible slip: the preference quorum allowed to be exactly half of k.
VerifyHalfK(p) ==
    CASE 2 * p.AlphaPreference < p.K -> ParametersInvalid("k/2 < alphaPreference")
      [] p.AlphaConfidence < p.AlphaPreference -> ParametersInvalid("alphaPreference <= alphaConfidence")
      [] p.K < p.AlphaConfidence -> ParametersInvalid("alphaConfidence <= k")
      [] p.BetaVirtuous <= 0 -> ParametersInvalid("0 < betaVirtuous")
      [] p.BetaRogue < p.BetaVirtuous -> ParametersInvalid("betaVirtuous <= betaRogue")
      [] p.ConcurrentRepolls <= 0 -> ParametersInvalid("0 < concurrentRepolls")
      [] p.ConcurrentRepolls > p.BetaRogue -> ParametersInvalid("concurrentRepolls <= betaRogue")
      [] p.OptimalProcessing <= 0 -> ParametersInvalid("0 < optimalProcessing")
      [] p.MaxOutstandingItems <= 0 -> ParametersInvalid("0 < maxOutstandingItems")
      [] p.MaxItemProcessingTime <= 0 -> ParametersInvalid("0 < maxItemProcessingTime")
      [] OTHER -> NoError

\* A plausible slip: the cases of alphaConfidence tested in the other order.
VerifySwapped(p) ==
    CASE p.AlphaPreference <= GoDiv(p.K, 2) -> ParametersInvalid("k/2 < alphaPreference")
      [] p.K < p.AlphaConfidence -> ParametersInvalid("alphaConfidence <= k")
      [] p.AlphaConfidence < p.AlphaPreference -> ParametersInvalid("alphaPreference <= alphaConfidence")
      [] p.BetaVirtuous <= 0 -> ParametersInvalid("0 < betaVirtuous")
      [] p.BetaRogue < p.BetaVirtuous -> ParametersInvalid("betaVirtuous <= betaRogue")
      [] p.ConcurrentRepolls <= 0 -> ParametersInvalid("0 < concurrentRepolls")
      [] p.ConcurrentRepolls > p.BetaRogue -> ParametersInvalid("concurrentRepolls <= betaRogue")
      [] p.OptimalProcessing <= 0 -> ParametersInvalid("0 < optimalProcessing")
      [] p.MaxOutstandingItems <= 0 -> ParametersInvalid("0 < maxOutstandingItems")
      [] p.MaxItemProcessingTime <= 0 -> ParametersInvalid("0 < maxItemProcessingTime")
      [] OTHER -> NoError

\* A plausible slip: the Easter egg tested before every other case.
VerifyEggFirst(p) ==
    CASE p.BetaRogue = EasterBetaRogue /\ p.BetaVirtuous = EasterBetaVirtuous ->
             [kind |-> "ErrParametersInvalid", cond |-> "betaVirtuous <= betaRogue", egg |-> TRUE]
      [] p.AlphaPreference <= GoDiv(p.K, 2) -> ParametersInvalid("k/2 < alphaPreference")
      [] p.AlphaConfidence < p.AlphaPreference -> ParametersInvalid("alphaPreference <= alphaConfidence")
      [] p.K < p.AlphaConfidence -> ParametersInvalid("alphaConfidence <= k")
      [] p.BetaVirtuous <= 0 -> ParametersInvalid("0 < betaVirtuous")
      [] p.BetaRogue < p.BetaVirtuous -> ParametersInvalid("betaVirtuous <= betaRogue")
      [] p.ConcurrentRepolls <= 0 -> ParametersInvalid("0 < concurrentRepolls")
      [] p.ConcurrentRepolls > p.BetaRogue -> ParametersInvalid("concurrentRepolls <= betaRogue")
      [] p.OptimalProcessing <= 0 -> ParametersInvalid("0 < optimalProcessing")
      [] p.MaxOutstandingItems <= 0 -> ParametersInvalid("0 < maxOutstandingItems")
      [] p.MaxItemProcessingTime <= 0 -> ParametersInvalid("0 < maxItemProcessingTime")
      [] OTHER -> NoError

\* A plausible slip: the case alphaConfidence <= k left out.
VerifyNoKBound(p) ==
    CASE p.AlphaPreference <= GoDiv(p.K, 2) -> ParametersInvalid("k/2 < alphaPreference")
      [] p.AlphaConfidence < p.AlphaPreference -> ParametersInvalid("alphaPreference <= alphaConfidence")
      [] p.BetaVirtuous <= 0 -> ParametersInvalid("0 < betaVirtuous")
      [] p.BetaRogue < p.BetaVirtuous -> ParametersInvalid("betaVirtuous <= betaRogue")
      [] p.ConcurrentRepolls <= 0 -> ParametersInvalid("0 < concurrentRepolls")
      [] p.ConcurrentRepolls > p.BetaRogue -> ParametersInvalid("concurrentRepolls <= betaRogue")
      [] p.OptimalProcessing <= 0 -> ParametersInvalid("0 < optimalProcessing")
      [] p.MaxOutstandingItems <= 0 -> ParametersInvalid("0 < maxOutstandingItems")
      [] p.MaxItemProcessingTime <= 0 -> ParametersInvalid("0 < maxItemProcessingTime")
      [] OTHER -> NoError

\* The switch of Parameters.Verify: the first case that matches decides.
Verify(p) ==
    IF p.AlphaPreference <= GoDiv(p.K, 2)
        THEN ParametersInvalid("k/2 < alphaPreference")
    ELSE IF p.AlphaConfidence < p.AlphaPreference
        THEN ParametersInvalid("alphaPreference <= alphaConfidence")
    ELSE IF p.K < p.AlphaConfidence
        THEN ParametersInvalid("alphaConfidence <= k")
    ELSE IF p.BetaVirtuous <= 0
        THEN ParametersInvalid("0 < betaVirtuous")
    ELSE IF p.BetaRogue = EasterBetaRogue /\ p.BetaVirtuous = EasterBetaVirtuous
        THEN [kind |-> "ErrParametersInvalid", cond |-> "betaVirtuous <= betaRogue", egg |-> TRUE]
    ELSE IF p.BetaRogue < p.BetaVirtuous
        THEN ParametersInvalid("betaVirtuous <= betaRogue")
    ELSE IF p.ConcurrentRepolls <= 0
        THEN ParametersInvalid("0 < concurrentRepolls")
    ELSE IF p.ConcurrentRepolls > p.BetaRogue
        THEN ParametersInvalid("concurrentRepolls <= betaRogue")
    ELSE IF p.OptimalProcessing <= 0
        THEN ParametersInvalid("0 < optimalProcessing")
    ELSE IF p.MaxOutstandingItems <= 0
        THEN ParametersInvalid("0 < maxOutstandingItems")
    ELSE IF p.MaxItemProcessingTime <= 0
        THEN ParametersInvalid("0 < maxItemProcessingTime")
    ELSE NoError

\* The sixth scenario of section 8 of the specification: K = 20 and
\* AlphaPreference = 9 with every combination of sound and unsound values of
\* the other fields.
ScenarioParameterInputs ==
    [K : {20},
     AlphaPreference : {9},
     AlphaConfidence : {8, 20, 21},
     BetaVirtuous : {0, 1, EasterBetaVirtuous},
     BetaRogue : {0, EasterBetaRogue},
     ConcurrentRepolls : 0 .. 1,
     OptimalProcessing : 0 .. 1,
     MaxOutstandingItems : 0 .. 1,
     MaxItemProcessingTime : 0 .. 1]

\* Negative sample sizes, for which K/2 rounds toward zero.
NegativeKParameterInputs ==
    [K : {-3, -2},
     AlphaPreference : (-1) .. 1,
     AlphaConfidence : (-1) .. 1,
     BetaVirtuous : {1},
     BetaRogue : {1},
     ConcurrentRepolls : {1},
     OptimalProcessing : {1},
     MaxOutstandingItems : {1},
     MaxItemProcessingTime : {1}]

\* The parameter sets the model hands to Verify: the defaults and every
\* combination of small values around each boundary of the switch.
ParameterInputs ==
    {DefaultParameters} \cup ScenarioParameterInputs \cup NegativeKParameterInputs \cup
    [K : (-1) .. MaxK,
     AlphaPreference : 0 .. MaxK,
     AlphaConfidence : 0 .. (MaxK + 1),
     BetaVirtuous : (0 .. MaxBeta) \cup {EasterBetaVirtuous},
     BetaRogue : 0 .. MaxBeta,
     ConcurrentRepolls : 0 .. MaxBeta,
     OptimalProcessing : 0 .. 1,
     MaxOutstandingItems : 0 .. 1,
     MaxItemProcessingTime : 0 .. 1]

(***************************************************************************)
(* Vote tally of one poll (section 4.3 of the specification): the          *)
(* aggregate weight of the votes per BlockID.                              *)
(***************************************************************************)
BlockIDs == 1 .. NumBlockIDs

EmptyTally == [b \in BlockIDs |-> 0]

RECURSIVE SumWeights(_, _)
SumWeights(t, ids) ==
    IF ids = {} THEN 0
    ELSE LET b == CHOOSE x \in ids : TRUE
         IN t[b] + SumWeights(t, ids \ {b})

TotalWeight(t) == SumWeights(t, BlockIDs)


(***************************************************************************)
(* safemath: checked uint64 arithmetic.                                    *)
(***************************************************************************)
Add64(a, b) ==
    IF a + b > MaxUint64 THEN [v |-> 0, err |-> "overflow"]
    ELSE [v |-> a + b, err |-> "nil"]

Mul64(a, b) ==
    IF a * b > MaxUint64 THEN [v |-> 0, err |-> "overflow"]
    ELSE [v |-> a * b, err |-> "nil"]

Sub(a, b) ==
    IF a < b THEN [v |-> 0, err |-> "underflow"]
    ELSE [v |-> a - b, err |-> "nil"]

\* An unchecked uint64 result.
Wrap(x) == x % (MaxUint64 + 1)

(***************************************************************************)
(* time.Time                                                               *)
(***************************************************************************)
\* t.Unix(): whole seconds since the epoch.
Unix(t) == t \div TicksPerSecond

\* a.Compare(b)
Compare(a, b) == IF a < b THEN -1 ELSE IF a > b THEN 1 ELSE 0

(***************************************************************************)
(* fee.Calculator                                                          *)
(***************************************************************************)
ZeroGas == 0

NilCalculator ==
    [nil |-> TRUE, gasCap |-> 0, gasPrice |-> 0, blockGas |-> 0, currentExcessGas |-> 0]

\* A plausible slip: the i-th term divided by i + 1.
accumNextOffByOne(accum, numerator, denominator, i) ==
    ((accum * numerator) \div denominator) \div (i + 1)

\* The three updates of accum in one iteration of the loop of
\* fakeExponential: accum * numerator / denominator / i on big.Int values.
accumNext(accum, numerator, denominator, i) ==
    ((accum * numerator) \div denominator) \div i

\* The loop of fakeExponential on big.Int values, from iteration i on.
RECURSIVE fakeExponentialLoop(_, _, _, _, _)
fakeExponentialLoop(output, accum, numerator, denominator, i) ==
    IF accum > 0
        THEN fakeExponentialLoop(output + accum,
                                 ((accum * numerator) \div denominator) \div i,
                                 numerator, denominator, i + 1)
    ELSE output

\* A plausible slip: the sum is returned without the final division by d.
fakeExponentialNoFinalDiv(f, n, d) ==
    IF d = 0 THEN [panic |-> TRUE, value |-> 0]
    ELSE LET output == fakeExponentialLoop(0, f * d, n, d, 1)
         IN [panic |-> FALSE,
             value |-> IF output > MaxUint64 THEN MaxUint64 ELSE output]

\* A plausible slip: an output beyond uint64 is converted (and so wraps
\* around) rather than saturated.
fakeExponentialWrapping(f, n, d) ==
    IF d = 0 THEN [panic |-> TRUE, value |-> 0]
    ELSE LET output == fakeExponentialLoop(0, f * d, n, d, 1) \div d
         IN [panic |-> FALSE, value |-> Wrap(output)]

\* fakeExponential approximates f * e ** (n / d).  big.Int.Div panics on a
\* zero divisor: with d = 0 the loop is skipped (accum = f * 0) and the final
\* division panics.
fakeExponential(f, n, d) ==
    IF d = 0 THEN [panic |-> TRUE, value |-> 0]
    ELSE LET output == fakeExponentialLoop(0, f * d, n, d, 1) \div d
         IN [panic |-> FALSE,
             value |-> IF output > MaxUint64 THEN MaxUint64 ELSE output]

\* A plausible slip: the product converted to uint64 without the overflow check.
TargetGasWrapping(cfg, parentBlkTime, childBlkTime) ==
    IF Compare(parentBlkTime, childBlkTime) > 0
        THEN [gas |-> ZeroGas, err |-> "unexpected block times"]
    ELSE LET elapsedTime == Wrap(Unix(childBlkTime) - Unix(parentBlkTime))
         IN [gas |-> Wrap(cfg.GasTargetRate * elapsedTime), err |-> "nil"]

\* A plausible slip: the block times compared in whole seconds.
TargetGasUnixCompare(cfg, parentBlkTime, childBlkTime) ==
    IF Unix(parentBlkTime) > Unix(childBlkTime)
        THEN [gas |-> ZeroGas, err |-> "unexpected block times"]
    ELSE LET elapsedTime == Wrap(Unix(childBlkTime) - Unix(parentBlkTime))
             m == Mul64(cfg.GasTargetRate, elapsedTime)
         IN [gas |-> IF m.err # "nil" THEN MaxUint64 ELSE m.v, err |-> "nil"]

TargetGas(cfg, parentBlkTime, childBlkTime) ==
    IF Compare(parentBlkTime, childBlkTime) > 0
        THEN [gas |-> ZeroGas, err |-> "unexpected block times"]
    ELSE LET elapsedTime == Wrap(Unix(childBlkTime) - Unix(parentBlkTime))
             m == Mul64(cfg.GasTargetRate, elapsedTime)
         IN [gas |-> IF m.err # "nil" THEN MaxUint64 ELSE m.v, err |-> "nil"]

NewUpdatedManager(cfg, gasCap, currentExcessGas, parentBlkTime, childBlkTime) ==
    LET t == TargetGas(cfg, parentBlkTime, childBlkTime)
        excess == IF currentExcessGas > t.gas THEN currentExcessGas - t.gas ELSE ZeroGas
        price == fakeExponential(cfg.MinGasPrice, excess, cfg.UpdateDenominator)
    IN IF t.err # "nil"
           THEN [calc |-> NilCalculator, err |-> "failed calculating target gas"]
       ELSE IF price.panic
           THEN [calc |-> NilCalculator, err |-> "panic: division by zero"]
       ELSE [calc |-> [nil |-> FALSE, gasCap |-> gasCap, gasPrice |-> price.value,
                       blockGas |-> 0, currentExcessGas |-> currentExcessGas],
             err |-> "nil"]

GetGasPrice(c) == c.gasPrice

GetBlockGas(c) == c.blockGas

GetGasCap(c) == c.gasCap

GetExcessGas(c) == c.currentExcessGas

\* A plausible slip: a block that exactly fills the gas cap is refused.
CumulateGasCapInclusive(c, gas) ==
    LET blkGas == Add64(c.blockGas, gas)
        excessGas == Add64(c.currentExcessGas, gas)
    IN IF blkGas.err # "nil" \/ blkGas.v >= c.gasCap \/ excessGas.err # "nil"
           THEN [calc |-> c, err |-> "errGasBoundBreached"]
       ELSE [calc |-> [c EXCEPT !.blockGas = blkGas.v, !.currentExcessGas = excessGas.v],
             err |-> "nil"]

\* A plausible slip: blockGas assigned before the excess gas addition is checked.
CumulateGasPartialUpdate(c, gas) ==
    LET blkGas == Add64(c.blockGas, gas)
        excessGas == Add64(c.currentExcessGas, gas)
    IN IF blkGas.err # "nil" \/ blkGas.v > c.gasCap
           THEN [calc |-> c, err |-> "errGasBoundBreached"]
       ELSE IF excessGas.err # "nil"
           THEN [calc |-> [c EXCEPT !.blockGas = blkGas.v], err |-> "errGasBoundBreached"]
       ELSE [calc |-> [c EXCEPT !.blockGas = blkGas.v, !.currentExcessGas = excessGas.v],
             err |-> "nil"]

\* A plausible slip: the excess gas added with plain uint64 addition.
CumulateGasExcessUnchecked(c, gas) ==
    LET blkGas == Add64(c.blockGas, gas)
    IN IF blkGas.err # "nil" \/ blkGas.v > c.gasCap
           THEN [calc |-> c, err |-> "errGasBoundBreached"]
       ELSE [calc |-> [c EXCEPT !.blockGas = blkGas.v,
                                !.currentExcessGas = Wrap(c.currentExcessGas + gas)],
             err |-> "nil"]

CumulateGas(c, gas) ==
    LET blkGas == Add64(c.blockGas, gas)
        excessGas == Add64(c.currentExcessGas, gas)
    IN IF blkGas.err # "nil"
           THEN [calc |-> c, err |-> "errGasBoundBreached"]
       ELSE IF blkGas.v > c.gasCap
           THEN [calc |-> c, err |-> "errGasBoundBreached"]
       ELSE IF excessGas.err # "nil"
           THEN [calc |-> c, err |-> "errGasBoundBreached"]
       ELSE [calc |-> [c EXCEPT !.blockGas = blkGas.v, !.currentExcessGas = excessGas.v],
             err |-> "nil"]

\* A plausible slip: plain uint64 subtraction instead of safemath.Sub.
RemoveGasUnchecked(c, gasToRm) ==
    [calc |-> [c EXCEPT !.blockGas = Wrap(c.blockGas - gasToRm),
                        !.currentExcessGas = Wrap(c.currentExcessGas - gasToRm)],
     err |-> "nil"]

\* A plausible slip: the excess gas left as it is.
RemoveGasBlockGasOnly(c, gasToRm) ==
    LET rBlkdGas == Sub(c.blockGas, gasToRm)
    IN IF rBlkdGas.err # "nil"
           THEN [calc |-> c, err |-> "underflow: current Gas"]
       ELSE [calc |-> [c EXCEPT !.blockGas = rBlkdGas.v], err |-> "nil"]

RemoveGas(c, gasToRm) ==
    LET rBlkdGas == Sub(c.blockGas, gasToRm)
        rExcessGas == Sub(c.currentExcessGas, gasToRm)
    IN IF rBlkdGas.err # "nil"
           THEN [calc |-> c, err |-> "underflow: current Gas"]
       ELSE IF rExcessGas.err # "nil"
           THEN [calc |-> c, err |-> "underflow: current Excess gas"]
       ELSE [calc |-> [c EXCEPT !.blockGas = rBlkdGas.v, !.currentExcessGas = rExcessGas.v],
             err |-> "nil"]

(***************************************************************************)
(* Leaky bucket gas cap.                                                   *)
(***************************************************************************)
\* DynamicFeesConfig.Validate
Validate(cfg) ==
    IF cfg.LeakGasCoeff = 0 THEN "errZeroLeakGasCoeff" ELSE "nil"

\* GasCap: the sum and the product are plain uint64 operations and wrap; a
\* zero LeakGasCoeff reaches the division only with elapsedTime = 0 and panics.
GasCap(cfg, currentGasCapacity, parentBlkTime, childBlkTime) ==
    IF Compare(parentBlkTime, childBlkTime) > 0
        THEN [gas |-> ZeroGas, err |-> "errUnexpectedBlockTimes"]
    ELSE LET elapsedTime == Wrap(Unix(childBlkTime) - Unix(parentBlkTime))
         IN IF elapsedTime > cfg.LeakGasCoeff
                THEN [gas |-> cfg.MaxGasPerSecond, err |-> "nil"]
            ELSE IF cfg.LeakGasCoeff = 0
                THEN [gas |-> ZeroGas, err |-> "panic: integer divide by zero"]
            ELSE [gas |-> Min(cfg.MaxGasPerSecond,
                              Wrap(currentGasCapacity
                                   + Wrap(cfg.MaxGasPerSecond * elapsedTime)
                                     \div cfg.LeakGasCoeff)),
                  err |-> "nil"]

\* A plausible slip: plain uint64 subtraction without the comparison.
UpdateGasCapWrapping(currentGasCap, blkGas) == Wrap(currentGasCap - blkGas)

UpdateGasCap(currentGasCap, blkGas) ==
    IF currentGasCap > blkGas THEN currentGasCap - blkGas ELSE 0

(***************************************************************************)
(* Inputs of the fee engine.                                               *)
(***************************************************************************)
FeeConfigInputs ==
    [MinGasPrice : 1 .. MaxMinGasPrice,
     UpdateDenominator : 0 .. MaxDenominator,
     GasTargetRate : {0, 1, MaxUint64},
     MaxGasPerSecond : {0},
     LeakGasCoeff : {1}]

ExcessInputs == {0, 1, MaxUint64 - 1}

GasCapInputs == {0, 3}

GasInputs == {0, 1, 2, MaxUint64}

TimeInputs == 0 .. MaxTime

BucketConfigInputs ==
    [MinGasPrice : {1},
     UpdateDenominator : {1},
     GasTargetRate : {0},
     MaxGasPerSecond : 0 .. MaxUint64,
     LeakGasCoeff : 0 .. MaxLeakGasCoeff]

BucketTimeInputs == 0 .. MaxBucketTime

ExpInputs ==
    [f : 0 .. MaxUint64, n : 0 .. MaxUint64, d : 0 .. MaxDenominator]

(***************************************************************************)
(* The parameter contract as a state machine: the engine is handed a       *)
(* parameter set, verifies it, and only then runs polls.                   *)
(***************************************************************************)
ParamsIdle ==
    /\ params = DefaultParameters
    /\ verifyErr = NotVerified
    /\ tally = EmptyTally

FeeIdle ==
    /\ feesConfig = [MinGasPrice |-> 1, UpdateDenominator |-> 1, GasTargetRate |-> 0,
                     MaxGasPerSecond |-> 0, LeakGasCoeff |-> 1]
    /\ chainExcess = 0
    /\ chainTime = 0
    /\ calc = NilCalculator
    /\ last = [op |-> "none", arg |-> 0, err |-> "nil", pre |-> NilCalculator]
    /\ block = [excess |-> 0, target |-> 0, cumulated |-> 0, time |-> 0]
    /\ onTarget = FALSE

BucketIdle ==
    bucket = [capacity |-> 0, time |-> 0, validated |-> "unset", op |-> "none",
              err |-> "nil", arg |-> 0, pre |-> 0, preTime |-> 0, result |-> 0]

ExpIdle ==
    /\ expIn = [f |-> 0, n |-> 0, d |-> 1]
    /\ expOut = [done |-> FALSE, panic |-> FALSE, value |-> 0]

(***************************************************************************)
(* Blocks of the Preference Tree (sections 3 and 4.5 of the                *)
(* specification): the genesis and the blocks proposed on top of it.       *)
(***************************************************************************)
Genesis == 0

EngineBlocks == 1 .. NumEngineBlocks

EngineNodes == {Genesis} \cup EngineBlocks

\* Blocks 1 and 2 are conflicting children of the genesis; every later block
\* extends the block two before it.
Parent(b) == IF b <= 2 THEN Genesis ELSE b - 2

\* a is a proper ancestor of b.
RECURSIVE IsAncestor(_, _)
IsAncestor(a, b) ==
    IF b = Genesis THEN FALSE
    ELSE Parent(b) = a \/ IsAncestor(a, Parent(b))

\* The nodes on the path from root (excluded) down to b (included).
Path(root, b) ==
    {n \in EngineBlocks : (n = b \/ IsAncestor(n, b)) /\ IsAncestor(root, n)}

NoVotes == [b \in EngineBlocks |-> 0]

\* A Preference Tree holding the genesis alone.
NewTree(p) ==
    [started |-> TRUE,
     params |-> p,
     status |-> [b \in EngineBlocks |-> "unknown"],
     confidence |-> [n \in EngineNodes |-> 0],
     virtuous |-> [n \in EngineNodes |-> TRUE],
     preference |-> [n \in EngineNodes |-> n],
     root |-> Genesis,
     events |-> <<>>,
     polls |-> 0,
     tally |-> NoVotes,
     fatal |-> FALSE,
     attempted |-> Genesis]

\* The state of each further component while another component runs.
ExpPairIdle ==
    [f |-> 0, n1 |-> 0, n2 |-> 0, d |-> 1, done |-> FALSE,
     out1 |-> [panic |-> FALSE, value |-> 0], out2 |-> [panic |-> FALSE, value |-> 0]]

LoopIdle ==
    [pc |-> "idle", f |-> 0, n |-> 0, d |-> 1, output |-> 0, accum |-> 0, i |-> 1,
     result |-> 0]

TimeCallIdle ==
    [cfg |-> [MinGasPrice |-> 1, UpdateDenominator |-> 1, GasTargetRate |-> 0,
              MaxGasPerSecond |-> 0, LeakGasCoeff |-> 1],
     gasCap |-> 0, excess |-> 0, parent |-> 0, child |-> 0,
     target |-> [done |-> FALSE, gas |-> 0, err |-> "nil", calc |-> NilCalculator],
     cap |-> [done |-> FALSE, gas |-> 0, err |-> "nil", calc |-> NilCalculator],
     manager |-> [done |-> FALSE, gas |-> 0, err |-> "nil", calc |-> NilCalculator]]

DimsIdle ==
    [a |-> <<0, 0, 0, 0>>, b |-> <<0, 0, 0, 0>>, w |-> <<1, 1, 1, 1>>, done |-> FALSE,
     sum |-> [d |-> <<0, 0, 0, 0>>, err |-> "nil"],
     gasA |-> [gas |-> 0, err |-> "nil"], gasB |-> [gas |-> 0, err |-> "nil"],
     gasSum |-> [gas |-> 0, err |-> "nil"]]

CacheIdle ==
    [elements |-> <<>>, maxSize |-> 0, currentSize |-> 0, ops |-> 0,
     used |-> [k \in 1 .. NumCacheKeys |-> 0],
     last |-> [op |-> "none", key |-> 0, value |-> 0, removed |-> {}]]

EngineIdle == [NewTree(DefaultParameters) EXCEPT !.started = FALSE]

SchedIdle ==
    [started |-> FALSE, K |-> 1, concurrentRepolls |-> 1, nextRequestID |-> 1,
     polls |-> <<>>, delivered |-> <<>>]

\* The goroutines calling Initialize; goroutine c hands over the address c.
Callers == 1 .. NumCallers

\* The protocol versions of the node (version.RPCChainVMProtocol) and of the
\* calls: Initialize only compares them.
ProtocolVersionInputs == 1 .. 2

NoAddr == 0

NilError == [kind |-> "nil", vmLocationRpcChainVMProtocolVer |-> 0]

NotReturned == [kind |-> "none", vmLocationRpcChainVMProtocolVer |-> 0]

\* newInitializer: nothing recorded, the channel open, the Once unused.
newInitializer(RPCChainVMProtocol, versions) ==
    [started |-> TRUE,
     rpcChainVMProtocolVer |-> RPCChainVMProtocol,
     done |-> FALSE,
     m |-> 0,
     vmAddr |-> NoAddr,
     err |-> NilError,
     closes |-> 0,
     panic |-> FALSE,
     first |-> 0,
     pc |-> [c \in Callers |-> "idle"],
     protocolVersion |-> versions,
     ret |-> [c \in Callers |-> NotReturned]]

InitializerIdle ==
    [newInitializer(1, [c \in Callers |-> 1]) EXCEPT !.started = FALSE]

OtherIdle ==
    /\ expPair = ExpPairIdle
    /\ loop = LoopIdle
    /\ timeCall = TimeCallIdle
    /\ dims = DimsIdle
    /\ cache = CacheIdle
    /\ engine = EngineIdle
    /\ sched = SchedIdle
    /\ initializer = InitializerIdle

InitParams ==
    /\ OtherIdle
    /\ params \in ParameterInputs
    /\ verifyErr = NotVerified
    /\ tally = EmptyTally
    /\ FeeIdle
    /\ BucketIdle
    /\ ExpIdle

\* The engine's constructor calls params.Verify() and refuses to start on an error.
VerifyParameters ==
    /\ verifyErr = NotVerified
    /\ verifyErr' = Verify(params)
    /\ UNCHANGED <<params, tally, feeVars, bucketVars, expVars, otherVars>>

\* One poll of K sampled peers closes with the tally t.
Poll(t) ==
    /\ verifyErr.kind = "nil"
    /\ TotalWeight(t) <= params.K
    /\ tally' = t
    /\ UNCHANGED <<params, verifyErr, feeVars, bucketVars, expVars, otherVars>>

NextParams ==
    \/ VerifyParameters
    \/ \E t \in [BlockIDs -> 0 .. MaxWeight] : Poll(t)

SpecParams == InitParams /\ [][NextParams]_vars

(***************************************************************************)
(* The fee engine as a state machine: for each block a Calculator is built *)
(* from the excess gas the previous block left, gas is cumulated and       *)
(* removed while the block is assembled, and the accepted block hands its  *)
(* excess gas and timestamp to the next one.                               *)
(***************************************************************************)
InitFee ==
    /\ OtherIdle
    /\ ParamsIdle
    /\ BucketIdle
    /\ ExpIdle
    /\ feesConfig \in FeeConfigInputs
    /\ chainExcess \in ExcessInputs
    /\ chainTime = 0
    /\ calc = NilCalculator
    /\ last = [op |-> "none", arg |-> 0, err |-> "nil", pre |-> NilCalculator]
    /\ block = [excess |-> 0, target |-> 0, cumulated |-> 0, time |-> 0]
    /\ onTarget = (chainExcess = 0)

BuildBlock(gasCap, childBlkTime) ==
    LET r == NewUpdatedManager(feesConfig, gasCap, chainExcess, chainTime, childBlkTime)
    IN /\ calc.nil
       /\ calc' = r.calc
       /\ last' = [op |-> "NewUpdatedManager", arg |-> gasCap, err |-> r.err, pre |-> calc]
       /\ block' = IF r.err = "nil"
                       THEN [excess |-> chainExcess,
                             target |-> TargetGas(feesConfig, chainTime, childBlkTime).gas,
                             cumulated |-> 0,
                             time |-> childBlkTime]
                   ELSE block
       /\ UNCHANGED <<feesConfig, chainExcess, chainTime, onTarget,
                      paramsVars, bucketVars, expVars, otherVars>>

CumulateGasCall(gas) ==
    LET r == CumulateGas(calc, gas)
    IN /\ ~calc.nil
       /\ calc' = r.calc
       /\ last' = [op |-> "CumulateGas", arg |-> gas, err |-> r.err, pre |-> calc]
       /\ block' = IF r.err = "nil"
                       THEN [block EXCEPT !.cumulated = @ + gas]
                   ELSE block
       /\ UNCHANGED <<feesConfig, chainExcess, chainTime, onTarget,
                      paramsVars, bucketVars, expVars, otherVars>>

RemoveGasCall(gasToRm) ==
    LET r == RemoveGas(calc, gasToRm)
    IN /\ ~calc.nil
       /\ calc' = r.calc
       /\ last' = [op |-> "RemoveGas", arg |-> gasToRm, err |-> r.err, pre |-> calc]
       /\ block' = IF r.err = "nil"
                       THEN [block EXCEPT !.cumulated = @ - gasToRm]
                   ELSE block
       /\ UNCHANGED <<feesConfig, chainExcess, chainTime, onTarget,
                      paramsVars, bucketVars, expVars, otherVars>>

\* The block is accepted: its excess gas and timestamp become the chain's.
AcceptBlock ==
    /\ ~calc.nil
    /\ chainExcess' = GetExcessGas(calc)
    /\ chainTime' = block.time
    /\ onTarget' = (onTarget /\ block.cumulated = block.target)
    /\ calc' = NilCalculator
    /\ last' = [op |-> "AcceptBlock", arg |-> GetBlockGas(calc), err |-> "nil", pre |-> calc]
    /\ UNCHANGED <<feesConfig, block, paramsVars, bucketVars, expVars, otherVars>>

NextFee ==
    \/ \E gasCap \in GasCapInputs, t \in TimeInputs : BuildBlock(gasCap, t)
    \/ \E gas \in GasInputs : CumulateGasCall(gas)
    \/ \E gas \in GasInputs : RemoveGasCall(gas)
    \/ AcceptBlock

SpecFee == InitFee /\ [][NextFee]_vars

(***************************************************************************)
(* The leaky bucket as a state machine: the configuration is validated,    *)
(* then every block refills the bucket with GasCap for the time elapsed    *)
(* since its parent and drains it with UpdateGasCap by the gas it used.    *)
(***************************************************************************)
InitBucket ==
    /\ OtherIdle
    /\ ParamsIdle
    /\ ExpIdle
    /\ feesConfig \in BucketConfigInputs
    /\ chainExcess = 0
    /\ chainTime = 0
    /\ calc = NilCalculator
    /\ last = [op |-> "none", arg |-> 0, err |-> "nil", pre |-> NilCalculator]
    /\ block = [excess |-> 0, target |-> 0, cumulated |-> 0, time |-> 0]
    /\ onTarget = FALSE
    /\ \E c \in 0 .. MaxUint64 :
           bucket = [capacity |-> c, time |-> 0, validated |-> "unset", op |-> "none",
                     err |-> "nil", arg |-> 0, pre |-> 0, preTime |-> 0, result |-> 0]

ValidateConfig ==
    /\ bucket.validated = "unset"
    /\ bucket' = [bucket EXCEPT !.validated = Validate(feesConfig)]
    /\ UNCHANGED <<paramsVars, feeVars, expVars, otherVars>>

\* A block with timestamp childBlkTime: the capacity it is offered.
Refill(childBlkTime) ==
    LET r == GasCap(feesConfig, bucket.capacity, bucket.time, childBlkTime)
    IN /\ bucket.validated = "nil"
       /\ bucket' = [bucket EXCEPT
                        !.op = "GasCap", !.err = r.err, !.arg = childBlkTime,
                        !.pre = bucket.capacity, !.preTime = bucket.time,
                        !.result = r.gas,
                        !.capacity = IF r.err = "nil" THEN r.gas ELSE @,
                        !.time = IF r.err = "nil" THEN childBlkTime ELSE @]
       /\ UNCHANGED <<paramsVars, feeVars, expVars, otherVars>>

\* The block used blkGas of the capacity.
Drain(blkGas) ==
    LET next == UpdateGasCap(bucket.capacity, blkGas)
    IN /\ bucket.validated = "nil"
       /\ bucket.op = "GasCap"
       /\ bucket.err = "nil"
       /\ bucket' = [bucket EXCEPT
                        !.op = "UpdateGasCap", !.err = "nil", !.arg = blkGas,
                        !.pre = bucket.capacity, !.preTime = bucket.time,
                        !.result = next, !.capacity = next]
       /\ UNCHANGED <<paramsVars, feeVars, expVars, otherVars>>

NextBucket ==
    \/ ValidateConfig
    \/ \E t \in BucketTimeInputs : Refill(t)
    \/ \E g \in GasInputs : Drain(g)

SpecBucket == InitBucket /\ [][NextBucket]_vars

(***************************************************************************)
(* fakeExponential as a pure function of its three arguments.              *)
(***************************************************************************)
InitExp ==
    /\ OtherIdle
    /\ ParamsIdle
    /\ FeeIdle
    /\ BucketIdle
    /\ expIn \in ExpInputs
    /\ expOut = [done |-> FALSE, panic |-> FALSE, value |-> 0]

ComputeGasPrice ==
    LET r == fakeExponential(expIn.f, expIn.n, expIn.d)
    IN /\ ~expOut.done
       /\ expOut' = [done |-> TRUE, panic |-> r.panic, value |-> r.value]
       /\ UNCHANGED <<expIn, paramsVars, feeVars, bucketVars, otherVars>>

NextExp == ComputeGasPrice

SpecExp == InitExp /\ [][NextExp]_vars

(***************************************************************************)
(* fakeExponential called for one factor, one denominator and two excess   *)
(* values n1 <= n2.                                                        *)
(***************************************************************************)
ExpPairInputs ==
    {p \in [f : 0 .. MaxUint64, n1 : 0 .. MaxUint64, n2 : 0 .. MaxUint64,
            d : 0 .. MaxDenominator] : p.n1 <= p.n2}

InitExpPair ==
    /\ ParamsIdle
    /\ FeeIdle
    /\ BucketIdle
    /\ ExpIdle
    /\ \E p \in ExpPairInputs :
           expPair = [f |-> p.f, n1 |-> p.n1, n2 |-> p.n2, d |-> p.d, done |-> FALSE,
                      out1 |-> [panic |-> FALSE, value |-> 0],
                      out2 |-> [panic |-> FALSE, value |-> 0]]
    /\ loop = LoopIdle
    /\ timeCall = TimeCallIdle
    /\ dims = DimsIdle
    /\ cache = CacheIdle
    /\ engine = EngineIdle
    /\ sched = SchedIdle
    /\ initializer = InitializerIdle

ComputeGasPricePair ==
    /\ ~expPair.done
    /\ expPair' = [expPair EXCEPT
                       !.done = TRUE,
                       !.out1 = fakeExponential(expPair.f, expPair.n1, expPair.d),
                       !.out2 = fakeExponential(expPair.f, expPair.n2, expPair.d)]
    /\ UNCHANGED <<baseVars, loop, timeCall, dims, cache, engine, sched, initializer>>

NextExpPair == ComputeGasPricePair

SpecExpPair == InitExpPair /\ [][NextExpPair]_vars

(***************************************************************************)
(* fakeExponential run one loop iteration at a time.                       *)
(***************************************************************************)
LoopInputs ==
    [f : 0 .. MaxUint64, n : 0 .. MaxUint64, d : 0 .. MaxDenominator]

InitLoop ==
    /\ ParamsIdle
    /\ FeeIdle
    /\ BucketIdle
    /\ ExpIdle
    /\ expPair = ExpPairIdle
    /\ \E a \in LoopInputs :
           loop = [pc |-> "loop", f |-> a.f, n |-> a.n, d |-> a.d, output |-> 0,
                   accum |-> a.f * a.d, i |-> 1, result |-> 0]
    /\ timeCall = TimeCallIdle
    /\ dims = DimsIdle
    /\ cache = CacheIdle
    /\ engine = EngineIdle
    /\ sched = SchedIdle
    /\ initializer = InitializerIdle

\* One iteration of the loop: accum.Sign() > 0.
LoopIteration ==
    /\ loop.pc = "loop"
    /\ loop.accum > 0
    /\ loop' = [loop EXCEPT
                    !.output = loop.output + loop.accum,
                    !.accum = accumNext(loop.accum, loop.n, loop.d, loop.i),
                    !.i = loop.i + 1]
    /\ UNCHANGED <<baseVars, expPair, timeCall, dims, cache, engine, sched, initializer>>

\* The loop is left: the final division (which panics on a zero divisor)
\* and the conversion to uint64.
LoopExit ==
    /\ loop.pc = "loop"
    /\ loop.accum <= 0
    /\ loop' = IF loop.d = 0
                   THEN [loop EXCEPT !.pc = "panic"]
               ELSE LET output == loop.output \div loop.d
                    IN [loop EXCEPT
                            !.pc = "done",
                            !.result = IF output > MaxUint64 THEN MaxUint64 ELSE output]
    /\ UNCHANGED <<baseVars, expPair, timeCall, dims, cache, engine, sched, initializer>>

NextLoop == LoopIteration \/ LoopExit

SpecLoop == InitLoop /\ [][NextLoop]_vars

\* The loop is sequential code: a step that can be taken is taken.
SpecLoopFair == SpecLoop /\ WF_vars(NextLoop)

(***************************************************************************)
(* TargetGas, GasCap and NewUpdatedManager called for one configuration    *)
(* and one pair of block times.                                            *)
(***************************************************************************)
TimeCallInputs ==
    [cfg : [MinGasPrice : {1},
            UpdateDenominator : 0 .. 1,
            GasTargetRate : 0 .. MaxUint64,
            MaxGasPerSecond : {0, 3},
            LeakGasCoeff : 0 .. 1],
     excess : {0, 1},
     parent : BucketTimeInputs,
     child : BucketTimeInputs]

NoCall == [done |-> FALSE, gas |-> 0, err |-> "nil", calc |-> NilCalculator]

InitBlockTimes ==
    /\ ParamsIdle
    /\ FeeIdle
    /\ BucketIdle
    /\ ExpIdle
    /\ expPair = ExpPairIdle
    /\ loop = LoopIdle
    /\ \E a \in TimeCallInputs :
           timeCall = [cfg |-> a.cfg, gasCap |-> a.cfg.MaxGasPerSecond,
                       excess |-> a.excess, parent |-> a.parent, child |-> a.child,
                       target |-> NoCall, cap |-> NoCall, manager |-> NoCall]
    /\ dims = DimsIdle
    /\ cache = CacheIdle
    /\ engine = EngineIdle
    /\ sched = SchedIdle
    /\ initializer = InitializerIdle

CallTargetGas ==
    LET r == TargetGas(timeCall.cfg, timeCall.parent, timeCall.child)
    IN /\ ~timeCall.target.done
       /\ timeCall' = [timeCall EXCEPT
                           !.target = [done |-> TRUE, gas |-> r.gas, err |-> r.err,
                                       calc |-> NilCalculator]]
       /\ UNCHANGED <<baseVars, expPair, loop, dims, cache, engine, sched, initializer>>

CallGasCap ==
    LET r == GasCap(timeCall.cfg, timeCall.gasCap, timeCall.parent, timeCall.child)
    IN /\ ~timeCall.cap.done
       /\ timeCall' = [timeCall EXCEPT
                           !.cap = [done |-> TRUE, gas |-> r.gas, err |-> r.err,
                                    calc |-> NilCalculator]]
       /\ UNCHANGED <<baseVars, expPair, loop, dims, cache, engine, sched, initializer>>

CallNewUpdatedManager ==
    LET r == NewUpdatedManager(timeCall.cfg, timeCall.gasCap, timeCall.excess,
                               timeCall.parent, timeCall.child)
    IN /\ ~timeCall.manager.done
       /\ timeCall' = [timeCall EXCEPT
                           !.manager = [done |-> TRUE, gas |-> 0, err |-> r.err,
                                        calc |-> r.calc]]
       /\ UNCHANGED <<baseVars, expPair, loop, dims, cache, engine, sched, initializer>>

NextBlockTimes == CallTargetGas \/ CallGasCap \/ CallNewUpdatedManager

SpecBlockTimes == InitBlockTimes /\ [][NextBlockTimes]_vars

(***************************************************************************)
(* fee.Dimensions: the complexity of a transaction in four dimensions.     *)
(***************************************************************************)
NumDimensions == 4

DimensionIndices == 1 .. NumDimensions

Empty == [i \in DimensionIndices |-> 0]

\* The inner loop of Add for one operand o, from index i on: d[i] receives
\* what Add64 returns, its zero on overflow included.
RECURSIVE AddLoop(_, _, _)
AddLoop(d, o, i) ==
    IF i > NumDimensions THEN [d |-> d, err |-> "nil"]
    ELSE LET r == Add64(d[i], o[i])
         IN IF r.err # "nil"
                THEN [d |-> [d EXCEPT ![i] = r.v], err |-> r.err]
            ELSE AddLoop([d EXCEPT ![i] = r.v], o, i + 1)

\* Dimensions.Add over the operands os.
RECURSIVE Add(_, _)
Add(d, os) ==
    IF os = <<>> THEN [d |-> d, err |-> "nil"]
    ELSE LET r == AddLoop(d, Head(os), 1)
         IN IF r.err # "nil" THEN r ELSE Add(r.d, Tail(os))

\* The loop of ToGas from index i on, res being the sum so far.
RECURSIVE ToGasLoop(_, _, _, _)
ToGasLoop(d, weights, i, res) ==
    IF i > NumDimensions THEN [gas |-> res, err |-> "nil"]
    ELSE LET v == Mul64(d[i], weights[i])
             s == Add64(res, v.v)
         IN IF v.err # "nil" THEN [gas |-> 0, err |-> v.err]
            ELSE IF s.err # "nil" THEN [gas |-> 0, err |-> s.err]
            ELSE ToGasLoop(d, weights, i + 1, s.v)

\* The loop of ToGas with a plain uint64 multiplication.
RECURSIVE ToGasLoopUncheckedMul(_, _, _, _)
ToGasLoopUncheckedMul(d, weights, i, res) ==
    IF i > NumDimensions THEN [gas |-> res, err |-> "nil"]
    ELSE LET s == Add64(res, Wrap(d[i] * weights[i]))
         IN IF s.err # "nil" THEN [gas |-> 0, err |-> s.err]
            ELSE ToGasLoopUncheckedMul(d, weights, i + 1, s.v)

\* A plausible slip: the products computed without safemath.Mul64.
ToGasUncheckedMul(d, weights) == ToGasLoopUncheckedMul(d, weights, 1, 0)

\* Dimensions.ToGas
ToGas(d, weights) == ToGasLoop(d, weights, 1, 0)

\* Values of one dimension: nothing, one unit, half of the uint64 range.
DimensionInputs == {0, 1, (MaxUint64 + 1) \div 2}

WeightInputs == {1, 2}

NoGas == [gas |-> 0, err |-> "nil"]

InitDims ==
    /\ ParamsIdle
    /\ FeeIdle
    /\ BucketIdle
    /\ ExpIdle
    /\ expPair = ExpPairIdle
    /\ loop = LoopIdle
    /\ timeCall = TimeCallIdle
    /\ \E a \in [DimensionIndices -> DimensionInputs],
          b \in [DimensionIndices -> DimensionInputs],
          w \in [DimensionIndices -> WeightInputs] :
           dims = [a |-> a, b |-> b, w |-> w, done |-> FALSE,
                   sum |-> [d |-> Empty, err |-> "nil"],
                   gasA |-> NoGas, gasB |-> NoGas, gasSum |-> NoGas]
    /\ cache = CacheIdle
    /\ engine = EngineIdle
    /\ sched = SchedIdle
    /\ initializer = InitializerIdle

\* The complexities a and b are added and a, b and their sum are priced.
ComputeGas ==
    LET sum == Add(dims.a, <<dims.b>>)
    IN /\ ~dims.done
       /\ dims' = [dims EXCEPT
                       !.done = TRUE,
                       !.sum = sum,
                       !.gasA = ToGas(dims.a, dims.w),
                       !.gasB = ToGas(dims.b, dims.w),
                       !.gasSum = ToGas(sum.d, dims.w)]
       /\ UNCHANGED <<baseVars, expPair, loop, timeCall, cache, engine, sched, initializer>>

NextDims == ComputeGas

SpecDims == InitDims /\ [][NextDims]_vars

(***************************************************************************)
(* lru.SizedCache over a linked.Hashmap, whose entries are kept here as a  *)
(* sequence, the oldest first.                                             *)
(***************************************************************************)
\* linked.Hashmap.Get
HashmapGet(elements, key) ==
    IF \E j \in 1 .. Len(elements) : elements[j].key = key
        THEN LET j == CHOOSE x \in 1 .. Len(elements) : elements[x].key = key
             IN [value |-> elements[j].value, ok |-> TRUE]
    ELSE [value |-> 0, ok |-> FALSE]

\* linked.Hashmap.Delete
HashmapDelete(elements, key) ==
    SelectSeq(elements, LAMBDA en : en.key # key)

\* linked.Hashmap.Put: a new entry is appended, the entry of a key already
\* held is updated and moved to the back.
HashmapPut(elements, key, value) ==
    Append(HashmapDelete(elements, key), [key |-> key, value |-> value])

\* linked.Hashmap.Oldest
HashmapOldest(elements) ==
    IF elements = <<>> THEN [key |-> 0, value |-> 0, ok |-> FALSE]
    ELSE [key |-> Head(elements).key, value |-> Head(elements).value, ok |-> TRUE]

\* The size function the cache is constructed with: a value is its size.
size(key, value) == value

\* flush
flush(c) == [c EXCEPT !.elements = <<>>, !.currentSize = 0]

\* The eviction loop of put: the oldest entries are removed until the new
\* entry fits in what currentSize says is left.
RECURSIVE putLoop(_, _)
putLoop(c, newEntrySize) ==
    IF c.currentSize > c.maxSize - newEntrySize /\ c.elements # <<>>
        THEN LET oldest == HashmapOldest(c.elements)
             IN putLoop([c EXCEPT
                             !.elements = HashmapDelete(c.elements, oldest.key),
                             !.currentSize = c.currentSize - size(oldest.key, oldest.value)],
                        newEntrySize)
    ELSE c

\* put
put(c, key, value) ==
    LET newEntrySize == size(key, value)
        old == HashmapGet(c.elements, key)
        c1 == IF old.ok
                  THEN [c EXCEPT !.currentSize = c.currentSize - size(key, old.value)]
              ELSE c
        c2 == putLoop(c1, newEntrySize)
    IN IF newEntrySize > c.maxSize THEN flush(c)
       ELSE [c2 EXCEPT !.elements = HashmapPut(c2.elements, key, value),
                       !.currentSize = c2.currentSize + newEntrySize]

\* A plausible slip: get returns the value without marking the key as the
\* most recently used.
getNoTouch(c, key) == c

\* get: a key that is held becomes the most recently used.
get(c, key) ==
    LET r == HashmapGet(c.elements, key)
    IN IF ~r.ok THEN c
       ELSE [c EXCEPT !.elements = HashmapPut(c.elements, key, r.value)]

\* evict
evict(c, key) ==
    LET r == HashmapGet(c.elements, key)
    IN IF r.ok
           THEN [c EXCEPT !.elements = HashmapDelete(c.elements, key),
                          !.currentSize = c.currentSize - size(key, r.value)]
       ELSE c

CacheKeys == 1 .. NumCacheKeys

\* Sizes of the values put, one beyond the largest maxSize included.
CacheValues == 1 .. (MaxCacheSize + 1)

\* The keys of the entries held.
Keys(elements) == {elements[j].key : j \in 1 .. Len(elements)}

\* NewSizedCache.  Next to the fields of the cache: the number of calls made
\* (ops), the call at which each key was last put or found by Get (used),
\* and the last call with the keys it removed (last).
NewSizedCache(maxSize) ==
    [elements |-> <<>>, maxSize |-> maxSize, currentSize |-> 0, ops |-> 0,
     used |-> [k \in CacheKeys |-> 0],
     last |-> [op |-> "none", key |-> 0, value |-> 0, removed |-> {}]]

\* The call op(key, value) that took the cache from c to c1, recorded in c1.
Called(c, c1, op, key, value, touched) ==
    [c1 EXCEPT
         !.ops = c.ops + 1,
         !.used = IF touched THEN [c.used EXCEPT ![key] = c.ops + 1] ELSE c.used,
         !.last = [op |-> op, key |-> key, value |-> value,
                   removed |-> Keys(c.elements) \ Keys(c1.elements)]]

InitCache ==
    /\ ParamsIdle
    /\ FeeIdle
    /\ BucketIdle
    /\ ExpIdle
    /\ expPair = ExpPairIdle
    /\ loop = LoopIdle
    /\ timeCall = TimeCallIdle
    /\ dims = DimsIdle
    /\ \E maxSize \in 1 .. MaxCacheSize : cache = NewSizedCache(maxSize)
    /\ engine = EngineIdle
    /\ sched = SchedIdle
    /\ initializer = InitializerIdle

Put ==
    /\ cache.ops < MaxCacheOps
    /\ \E key \in CacheKeys, value \in CacheValues :
           cache' = Called(cache, put(cache, key, value), "Put", key, value,
                           size(key, value) <= cache.maxSize)
    /\ UNCHANGED <<baseVars, expPair, loop, timeCall, dims, engine, sched, initializer>>

Get ==
    /\ cache.ops < MaxCacheOps
    /\ \E key \in CacheKeys :
           cache' = Called(cache, get(cache, key), "Get", key, 0,
                           HashmapGet(cache.elements, key).ok)
    /\ UNCHANGED <<baseVars, expPair, loop, timeCall, dims, engine, sched, initializer>>

Evict ==
    /\ cache.ops < MaxCacheOps
    /\ \E key \in CacheKeys :
           cache' = Called(cache, evict(cache, key), "Evict", key, 0, FALSE)
    /\ UNCHANGED <<baseVars, expPair, loop, timeCall, dims, engine, sched, initializer>>

Flush ==
    /\ cache.ops < MaxCacheOps
    /\ cache' = Called(cache, flush(cache), "Flush", 0, 0, FALSE)
    /\ UNCHANGED <<baseVars, expPair, loop, timeCall, dims, engine, sched, initializer>>

NextCache == Put \/ Get \/ Evict \/ Flush

SpecCache == InitCache /\ [][NextCache]_vars

(***************************************************************************)
(* Preference Tree and Decision Machine (sections 4.5 and 4.6 of the       *)
(* specification).                                                         *)
(***************************************************************************)
Processing(e) == {b \in EngineBlocks : e.status[b] = "processing"}

\* A plausible slip: the threshold of a virtuous block applied to every block.
thresholdVirtuousOnly(e, b) == e.params.BetaVirtuous

\* The confidence at which block b is accepted.
threshold(e, b) ==
    IF e.virtuous[b] THEN e.params.BetaVirtuous ELSE e.params.BetaRogue

\* add(block): a block whose parent is neither the root nor a node of the
\* tree is dropped.  The new node has confidence 0 and prefers itself; it
\* and its siblings stop being virtuous when they conflict, and so does a
\* parent with two children; every ancestor whose preferred leaf the block
\* extends prefers the block.
add(e, b) ==
    LET parent == Parent(b)
        siblings == {s \in Processing(e) : Parent(s) = parent}
        rogue == IF siblings = {} THEN {} ELSE siblings \cup {b, parent}
    IN IF parent # e.root /\ parent \notin Processing(e) THEN e
       ELSE [e EXCEPT
                !.status = [@ EXCEPT ![b] = "processing"],
                !.confidence = [@ EXCEPT ![b] = 0],
                !.virtuous = [n \in EngineNodes |->
                                 IF n \in rogue THEN FALSE ELSE e.virtuous[n]],
                !.preference = [n \in EngineNodes |->
                                   IF n = b THEN b
                                   ELSE IF (n = parent \/ IsAncestor(n, b))
                                           /\ e.preference[n] = parent
                                       THEN b
                                   ELSE e.preference[n]]]

\* A plausible slip: the preference update left out, the confidence update
\* alone applied.
record_pollNoFlip(e, votes) ==
    LET hasC == \E b \in Processing(e) : votes[b] >= e.params.AlphaConfidence
        bc == CHOOSE b \in Processing(e) : votes[b] >= e.params.AlphaConfidence
        confidencePath == IF hasC /\ bc \in Path(e.root, e.preference[e.root])
                              THEN Path(e.root, bc)
                          ELSE {}
    IN [e EXCEPT
            !.confidence = [n \in EngineNodes |->
                               IF n \in confidencePath THEN e.confidence[n] + 1
                               ELSE IF n \in Processing(e) THEN 0
                               ELSE e.confidence[n]]]

\* record_poll(tally).  Step 1: a block of the tree with weight >= alphaP
\* that is not the preferred leaf flips the preference of each of its
\* ancestors toward its branch, and a node whose preference changed has its
\* confidence reset.  Step 2: a block with weight >= alphaC on the preferred
\* path adds 1 to the confidence of every node on the path to it; every
\* other node of the tree has its confidence reset.
record_poll(e, votes) ==
    LET hasP == \E b \in Processing(e) : votes[b] >= e.params.AlphaPreference
        bp == CHOOSE b \in Processing(e) : votes[b] >= e.params.AlphaPreference
        flip == hasP /\ bp # e.preference[e.root]
        preference1 == [n \in EngineNodes |->
                           IF flip /\ (n = e.root \/ n \in Path(e.root, bp)) /\ n # bp
                               THEN e.preference[bp]
                           ELSE e.preference[n]]
        confidence1 == [n \in EngineNodes |->
                           IF preference1[n] # e.preference[n] THEN 0
                           ELSE e.confidence[n]]
        hasC == \E b \in Processing(e) : votes[b] >= e.params.AlphaConfidence
        bc == CHOOSE b \in Processing(e) : votes[b] >= e.params.AlphaConfidence
        confidencePath == IF hasC /\ bc \in Path(e.root, preference1[e.root])
                              THEN Path(e.root, bc)
                          ELSE {}
    IN [e EXCEPT
            !.preference = preference1,
            !.confidence = [n \in EngineNodes |->
                               IF n \in confidencePath THEN confidence1[n] + 1
                               ELSE IF n \in Processing(e) THEN 0
                               ELSE confidence1[n]]]

\* Reject(block) for every block of ids, in increasing BlockID order.
RECURSIVE RejectEvents(_, _)
RejectEvents(ids, poll) ==
    IF ids = {} THEN <<>>
    ELSE LET b == CHOOSE x \in ids : \A y \in ids : x <= y
         IN <<[kind |-> "Reject", block |-> b, poll |-> poll]>>
                \o RejectEvents(ids \ {b}, poll)

\* A plausible slip: a block accepted without looking at its parent.
acceptBlockUnchecked(e, b) ==
    LET discarded == {n \in Processing(e) : n # b /\ ~IsAncestor(b, n)}
    IN [e EXCEPT
            !.status = [n \in EngineBlocks |->
                           IF n = b THEN "accepted"
                           ELSE IF n \in discarded THEN "rejected"
                           ELSE e.status[n]],
            !.events = e.events \o <<[kind |-> "Accept", block |-> b, poll |-> e.polls]>>
                           \o RejectEvents(discarded, e.polls),
            !.root = b]

\* Accept(block): the tree is re-rooted to the block and every block of the
\* discarded subtrees is rejected.  Accepting a block whose parent is not
\* accepted is a broken internal invariant: the engine aborts.
acceptBlock(e, b) ==
    IF Parent(b) # Genesis /\ e.status[Parent(b)] # "accepted"
        THEN [e EXCEPT !.fatal = TRUE]
    ELSE LET discarded == {n \in Processing(e) : n # b /\ ~IsAncestor(b, n)}
         IN [e EXCEPT
                 !.status = [n \in EngineBlocks |->
                                IF n = b THEN "accepted"
                                ELSE IF n \in discarded THEN "rejected"
                                ELSE e.status[n]],
                 !.events = e.events
                                \o <<[kind |-> "Accept", block |-> b, poll |-> e.polls]>>
                                \o RejectEvents(discarded, e.polls),
                 !.root = b]

\* accept(): the child of the root on the preferred path is accepted once
\* its confidence has reached its threshold, and so on from the new root.
RECURSIVE accept(_)
accept(e) ==
    LET next == {n \in Path(e.root, e.preference[e.root]) : Parent(n) = e.root}
    IN IF e.fatal \/ next = {} THEN e
       ELSE LET c == CHOOSE n \in next : TRUE
            IN IF e.confidence[c] >= threshold(e, c)
                   THEN accept(acceptBlock(e, c))
               ELSE e

\* Parameters of the scenario "single-chain virtuous finalization" of
\* section 8.
FinalizationParameters ==
    [DefaultParameters EXCEPT
         !.K = 5, !.AlphaPreference = 4, !.AlphaConfidence = 4,
         !.BetaVirtuous = 2, !.BetaRogue = 3, !.ConcurrentRepolls = 1]

\* Parameters of the scenario "preference flip" of section 8: a poll with
\* weight 4 for a block moves the preference and adds no confidence.
PreferenceFlipParameters ==
    [DefaultParameters EXCEPT
         !.K = 5, !.AlphaPreference = 3, !.AlphaConfidence = 5,
         !.BetaVirtuous = 2, !.BetaRogue = 3, !.ConcurrentRepolls = 1]

\* Parameter sets of the engine, all of them accepted by Verify.
EngineParameterInputs ==
    {p \in {FinalizationParameters, PreferenceFlipParameters} : Verify(p) = NoError}

\* The tallies a terminated poll can hand over: per block no vote, one vote,
\* a quorum or nearly all votes, at most K votes in all.
TallyInputs(p) ==
    {t \in [EngineBlocks -> {0, 1, p.AlphaPreference, p.K - 1, p.K}] :
        SumWeights(t, EngineBlocks) <= p.K}

InitEngine ==
    /\ ParamsIdle
    /\ FeeIdle
    /\ BucketIdle
    /\ ExpIdle
    /\ expPair = ExpPairIdle
    /\ loop = LoopIdle
    /\ timeCall = TimeCallIdle
    /\ dims = DimsIdle
    /\ cache = CacheIdle
    /\ \E p \in EngineParameterInputs : engine = NewTree(p)
    /\ sched = SchedIdle
    /\ initializer = InitializerIdle

\* A verified block is handed to the tree.
AddBlock ==
    /\ ~engine.fatal
    /\ \E b \in EngineBlocks :
           /\ engine.status[b] = "unknown"
           /\ engine' = add(engine, b)
    /\ UNCHANGED <<baseVars, expPair, loop, timeCall, dims, cache, sched, initializer>>

\* One turn of the driver loop for a terminated poll: record_poll, then
\* accept.  Polls are issued only while a block is processing.
RecordPoll ==
    /\ ~engine.fatal
    /\ engine.polls < MaxEnginePolls
    /\ Processing(engine) # {}
    /\ \E t \in TallyInputs(engine.params) :
           engine' = accept([record_poll(engine, t) EXCEPT
                                 !.polls = engine.polls + 1,
                                 !.tally = t])
    /\ UNCHANGED <<baseVars, expPair, loop, timeCall, dims, cache, sched, initializer>>

\* Accept is asked for a block of the tree whose parent is not accepted.
AttemptAccept ==
    /\ ~engine.fatal
    /\ \E b \in Processing(engine) :
           /\ Parent(b) # Genesis
           /\ engine.status[Parent(b)] # "accepted"
           /\ engine' = [acceptBlock(engine, b) EXCEPT !.attempted = b]
    /\ UNCHANGED <<baseVars, expPair, loop, timeCall, dims, cache, sched, initializer>>

NextEngine == AddBlock \/ RecordPoll \/ AttemptAccept

SpecEngine == InitEngine /\ [][NextEngine]_vars

(***************************************************************************)
(* Poll Scheduler (sections 4.3 and 4.4 of the specification): polls are   *)
(* opened with increasing request ids, closed when all K sampled peers     *)
(* have responded or the timeout fires, and delivered in open order.       *)
(***************************************************************************)
\* A plausible slip: a response counted without looking at the state of the poll.
handleResponseAnyState(poll, kind, k) ==
    LET counted == IF kind = "vote"
                       THEN [poll EXCEPT !.votes = poll.votes + 1]
                   ELSE [poll EXCEPT !.failures = poll.failures + 1]
    IN IF counted.votes + counted.failures >= k
           THEN [counted EXCEPT !.state = "CLOSED"]
       ELSE counted

\* A response (a vote or a failure) addressed to a poll: discarded when the
\* poll is CLOSED, counted otherwise; the K-th response closes the poll.
handleResponse(poll, kind, k) ==
    IF poll.state = "CLOSED" THEN poll
    ELSE LET counted == IF kind = "vote"
                            THEN [poll EXCEPT !.votes = poll.votes + 1]
                        ELSE [poll EXCEPT !.failures = poll.failures + 1]
         IN IF counted.votes + counted.failures = k
                THEN [counted EXCEPT !.state = "CLOSED"]
            ELSE counted

\* The timeout of a poll: the peers that have not answered count as failures.
handleTimeout(poll, k) ==
    IF poll.state = "CLOSED" THEN poll
    ELSE [poll EXCEPT !.state = "CLOSED", !.failures = k - poll.votes]

Outstanding(s) == {i \in 1 .. Len(s.polls) : s.polls[i].state = "OPEN"}

InitScheduler ==
    /\ ParamsIdle
    /\ FeeIdle
    /\ BucketIdle
    /\ ExpIdle
    /\ expPair = ExpPairIdle
    /\ loop = LoopIdle
    /\ timeCall = TimeCallIdle
    /\ dims = DimsIdle
    /\ cache = CacheIdle
    /\ engine = EngineIdle
    /\ initializer = InitializerIdle
    /\ \E k \in 1 .. 2, repolls \in 1 .. 2 :
           sched = [started |-> TRUE, K |-> k, concurrentRepolls |-> repolls,
                    nextRequestID |-> 1, polls |-> <<>>, delivered |-> <<>>]

\* A poll is opened unless concurrentRepolls polls are outstanding.
OpenPoll ==
    /\ Len(sched.polls) < MaxSchedPolls
    /\ Cardinality(Outstanding(sched)) < sched.concurrentRepolls
    /\ sched' = [sched EXCEPT
                     !.polls = Append(@, [requestID |-> sched.nextRequestID,
                                          state |-> "OPEN", votes |-> 0, failures |-> 0]),
                     !.nextRequestID = sched.nextRequestID + 1]
    /\ UNCHANGED <<baseVars, expPair, loop, timeCall, dims, cache, engine, initializer>>

\* A response arrives for the request id of a poll, OPEN or CLOSED.
Response(i) ==
    /\ i \in 1 .. Len(sched.polls)
    /\ \E kind \in {"vote", "failure"} :
           sched' = [sched EXCEPT
                         !.polls[i] = handleResponse(sched.polls[i], kind, sched.K)]
    /\ UNCHANGED <<baseVars, expPair, loop, timeCall, dims, cache, engine, initializer>>

\* The timeout manager fires for an outstanding poll.
Timeout(i) ==
    /\ i \in Outstanding(sched)
    /\ sched' = [sched EXCEPT !.polls[i] = handleTimeout(sched.polls[i], sched.K)]
    /\ UNCHANGED <<baseVars, expPair, loop, timeCall, dims, cache, engine, initializer>>

\* The oldest poll not yet delivered is handed to the Decision Machine once
\* it is CLOSED.
Deliver ==
    LET i == Len(sched.delivered) + 1
    IN /\ i <= Len(sched.polls)
       /\ sched.polls[i].state = "CLOSED"
       /\ sched' = [sched EXCEPT !.delivered = Append(@, sched.polls[i])]
       /\ UNCHANGED <<baseVars, expPair, loop, timeCall, dims, cache, engine, initializer>>

NextScheduler ==
    \/ OpenPoll
    \/ \E i \in 1 .. MaxSchedPolls : Response(i)
    \/ \E i \in 1 .. MaxSchedPolls : Timeout(i)
    \/ Deliver

\* Every request has a deadline that fires, and the driver loop drains the
\* terminated polls.
SpecScheduler ==
    /\ InitScheduler
    /\ [][NextScheduler]_vars
    /\ \A i \in 1 .. MaxSchedPolls : WF_vars(Timeout(i))
    /\ WF_vars(Deliver)

(***************************************************************************)
(* The subprocess runtime initializer: goroutines call Initialize          *)
(* concurrently; each action is one step of one call.  once.Do is the      *)
(* standard library's: an atomic load of done, then the mutex, done read   *)
(* again, the function, done stored, the mutex released.                   *)
(***************************************************************************)
InitInitializer ==
    /\ ParamsIdle
    /\ FeeIdle
    /\ BucketIdle
    /\ ExpIdle
    /\ expPair = ExpPairIdle
    /\ loop = LoopIdle
    /\ timeCall = TimeCallIdle
    /\ dims = DimsIdle
    /\ cache = CacheIdle
    /\ engine = EngineIdle
    /\ sched = SchedIdle
    /\ \E RPCChainVMProtocol \in ProtocolVersionInputs,
          versions \in [Callers -> ProtocolVersionInputs] :
           initializer = newInitializer(RPCChainVMProtocol, versions)

\* Goroutine c calls Initialize(ctx, protocolVersion[c], c).
Initialize(c) ==
    /\ ~initializer.panic
    /\ initializer.pc[c] = "idle"
    /\ initializer' = [initializer EXCEPT !.pc[c] = "Do"]
    /\ UNCHANGED <<baseVars, expPair, loop, timeCall, dims, cache, engine, sched>>

\* once.Do, fast path: done is loaded.
DoFast(c) ==
    /\ ~initializer.panic
    /\ initializer.pc[c] = "Do"
    /\ initializer' = [initializer EXCEPT
                           !.pc[c] = IF initializer.done THEN "return" ELSE "doSlow"]
    /\ UNCHANGED <<baseVars, expPair, loop, timeCall, dims, cache, engine, sched>>

\* once.Do, slow path: the mutex is taken.
DoSlowLock(c) ==
    /\ ~initializer.panic
    /\ initializer.pc[c] = "doSlow"
    /\ initializer.m = 0
    /\ initializer' = [initializer EXCEPT !.m = c, !.pc[c] = "locked"]
    /\ UNCHANGED <<baseVars, expPair, loop, timeCall, dims, cache, engine, sched>>

\* A plausible slip: the function run by every call that found done unset
\* before it took the mutex.
DoSlowNoRecheck(c) ==
    /\ ~initializer.panic
    /\ initializer.pc[c] = "locked"
    /\ initializer' = [initializer EXCEPT
                           !.pc[c] = "version",
                           !.first = IF initializer.first = 0 THEN c ELSE @]
    /\ UNCHANGED <<baseVars, expPair, loop, timeCall, dims, cache, engine, sched>>

\* once.Do, slow path: done is read again under the mutex; the call that
\* finds it unset runs the function.
DoSlowCheck(c) ==
    /\ ~initializer.panic
    /\ initializer.pc[c] = "locked"
    /\ initializer' = IF initializer.done
                          THEN [initializer EXCEPT !.m = 0, !.pc[c] = "return"]
                      ELSE [initializer EXCEPT
                                !.pc[c] = "version",
                                !.first = IF initializer.first = 0 THEN c ELSE @]
    /\ UNCHANGED <<baseVars, expPair, loop, timeCall, dims, cache, engine, sched>>

\* The function: the error is recorded when the protocol versions differ.
CheckProtocolVersion(c) ==
    /\ ~initializer.panic
    /\ initializer.pc[c] = "version"
    /\ initializer' = [initializer EXCEPT
                           !.err = IF initializer.rpcChainVMProtocolVer
                                          # initializer.protocolVersion[c]
                                       THEN [kind |-> "errProtocolVersionMismatchDetails",
                                             vmLocationRpcChainVMProtocolVer |->
                                                 initializer.protocolVersion[c]]
                                   ELSE @,
                           !.pc[c] = "vmAddr"]
    /\ UNCHANGED <<baseVars, expPair, loop, timeCall, dims, cache, engine, sched>>

\* The function: i.vmAddr = vmAddr.
SetVmAddr(c) ==
    /\ ~initializer.panic
    /\ initializer.pc[c] = "vmAddr"
    /\ initializer' = [initializer EXCEPT !.vmAddr = c, !.pc[c] = "close"]
    /\ UNCHANGED <<baseVars, expPair, loop, timeCall, dims, cache, engine, sched>>

\* The function: close(i.initialized); closing a closed channel panics.
CloseInitialized(c) ==
    /\ ~initializer.panic
    /\ initializer.pc[c] = "close"
    /\ initializer' = IF initializer.closes > 0
                          THEN [initializer EXCEPT !.panic = TRUE, !.pc[c] = "panic"]
                      ELSE [initializer EXCEPT !.closes = 1, !.pc[c] = "unlock"]
    /\ UNCHANGED <<baseVars, expPair, loop, timeCall, dims, cache, engine, sched>>

\* once.Do, slow path: done is stored and the mutex released.
DoSlowUnlock(c) ==
    /\ ~initializer.panic
    /\ initializer.pc[c] = "unlock"
    /\ initializer' = [initializer EXCEPT !.done = TRUE, !.m = 0, !.pc[c] = "return"]
    /\ UNCHANGED <<baseVars, expPair, loop, timeCall, dims, cache, engine, sched>>

\* return i.err
Return(c) ==
    /\ ~initializer.panic
    /\ initializer.pc[c] = "return"
    /\ initializer' = [initializer EXCEPT !.ret[c] = initializer.err,
                                          !.pc[c] = "returned"]
    /\ UNCHANGED <<baseVars, expPair, loop, timeCall, dims, cache, engine, sched>>

NextInitializer ==
    \E c \in Callers :
        \/ Initialize(c)
        \/ DoFast(c)
        \/ DoSlowLock(c)
        \/ DoSlowCheck(c)
        \/ CheckProtocolVersion(c)
        \/ SetVmAddr(c)
        \/ CloseInitialized(c)
        \/ DoSlowUnlock(c)
        \/ Return(c)

SpecInitializer == InitInitializer /\ [][NextInitializer]_vars

(***************************************************************************)
(* Properties of the parameter contract.                                   *)
(***************************************************************************)

\* C1: Parameters.Verify returns nil if and only if K/2 < AlphaPreference <=
\* AlphaConfidence <= K (K/2 by Go's truncating division), 0 < BetaVirtuous <=
\* BetaRogue, 0 < ConcurrentRepolls <= BetaRogue, 0 < OptimalProcessing,
\* 0 < MaxOutstandingItems and 0 < MaxItemProcessingTime all hold; otherwise
\* it returns an error wrapping ErrParametersInvalid.
C1_VerifyNilIffValid ==
    verifyErr # NotVerified =>
        /\ verifyErr.kind \in {"nil", "ErrParametersInvalid"}
        /\ verifyErr.kind = "nil" <=>
               /\ GoDiv(params.K, 2) < params.AlphaPreference
               /\ params.AlphaPreference <= params.AlphaConfidence
               /\ params.AlphaConfidence <= params.K
               /\ 0 < params.BetaVirtuous
               /\ params.BetaVirtuous <= params.BetaRogue
               /\ 0 < params.ConcurrentRepolls
               /\ params.ConcurrentRepolls <= params.BetaRogue
               /\ 0 < params.OptimalProcessing
               /\ 0 < params.MaxOutstandingItems
               /\ 0 < params.MaxItemProcessingTime

\* Verify accepted a parameter set other than the defaults, with
\* AlphaConfidence on its upper boundary K.
C1_Witness ==
    /\ verifyErr.kind = "nil"
    /\ params # DefaultParameters
    /\ params.AlphaConfidence = params.K

\* C2: for every parameter set Verify accepts and every poll whose votes
\* weigh at most K in total, at most one BlockID has aggregate weight
\* >= AlphaPreference.
C2_AtMostOnePreferenceQuorum ==
    verifyErr.kind = "nil" =>
        Cardinality({b \in BlockIDs : tally[b] >= params.AlphaPreference}) <= 1

\* A poll under accepted parameters in which one BlockID reaches the
\* preference quorum while another BlockID also received votes.
C2_Witness ==
    /\ verifyErr.kind = "nil"
    /\ \E b1, b2 \in BlockIDs :
           /\ b1 # b2
           /\ tally[b1] >= params.AlphaPreference
           /\ tally[b2] > 0

(***************************************************************************)
(* Properties of the fee Calculator.                                       *)
(***************************************************************************)

\* C3 (as claimed): CumulateGas(g) fails with errGasBoundBreached exactly
\* when block_gas + g exceeds gas_cap or that addition overflows uint64;
\* otherwise it succeeds and block_gas increases by exactly g.
C3_FailsOnlyOnBlockGas ==
    last.op = "CumulateGas" =>
        /\ last.err \in {"nil", "errGasBoundBreached"}
        /\ last.err = "errGasBoundBreached" <=>
               \/ last.pre.blockGas + last.arg > last.pre.gasCap
               \/ last.pre.blockGas + last.arg > MaxUint64
        /\ last.err = "nil" => calc.blockGas = last.pre.blockGas + last.arg

\* C3 (amended): CumulateGas(g) fails with errGasBoundBreached exactly when
\* block_gas + g exceeds gas_cap or one of the two additions, block_gas + g
\* or excess gas + g, overflows uint64; otherwise it succeeds and block_gas
\* increases by exactly g.
C3_FailsExactlyOnBoundOrOverflow ==
    last.op = "CumulateGas" =>
        /\ last.err \in {"nil", "errGasBoundBreached"}
        /\ last.err = "errGasBoundBreached" <=>
               \/ last.pre.blockGas + last.arg > last.pre.gasCap
               \/ last.pre.blockGas + last.arg > MaxUint64
               \/ last.pre.currentExcessGas + last.arg > MaxUint64
        /\ last.err = "nil" => calc.blockGas = last.pre.blockGas + last.arg

\* CumulateGas failed although the block gas stays within the cap: the
\* excess gas addition overflowed.
C3_Witness ==
    /\ last.op = "CumulateGas"
    /\ last.err = "errGasBoundBreached"
    /\ last.pre.blockGas + last.arg <= last.pre.gasCap

\* C4: after any sequence of CumulateGas and RemoveGas calls, successful or
\* failing, on a Calculator that starts with block_gas = 0, block_gas <=
\* gas_cap holds and the excess gas is the exact, non-negative sum of the
\* parent excess and the gas cumulated (no uint64 wrap-around).
C4_BlockGasWithinCapExcessExact ==
    ~calc.nil =>
        /\ calc.blockGas <= calc.gasCap
        /\ calc.currentExcessGas >= 0
        /\ calc.currentExcessGas <= MaxUint64
        /\ calc.currentExcessGas = block.excess + block.cumulated

\* A RemoveGas asking for more than the block holds was refused while the
\* block holds gas.
C4_Witness ==
    /\ last.op = "RemoveGas"
    /\ last.err # "nil"
    /\ calc.blockGas > 0
    /\ last.arg > calc.blockGas

\* C5: a CumulateGas call that returns an error leaves block_gas, excess
\* gas, gas_cap and gas_price as they were.
C5_FailedCumulateGasChangesNothing ==
    (last.op = "CumulateGas" /\ last.err # "nil") =>
        /\ calc.blockGas = last.pre.blockGas
        /\ calc.currentExcessGas = last.pre.currentExcessGas
        /\ calc.gasCap = last.pre.gasCap
        /\ calc.gasPrice = last.pre.gasPrice

\* CumulateGas failed on a Calculator that already holds gas, after passing
\* the gas cap check.
C5_Witness ==
    /\ last.op = "CumulateGas"
    /\ last.err # "nil"
    /\ last.pre.blockGas > 0
    /\ last.pre.blockGas + last.arg <= last.pre.gasCap
    /\ last.pre.currentExcessGas + last.arg > MaxUint64

\* C7: the excess gas a Calculator reports for a block with parent excess
\* E, target T and cumulated gas C equals max(0, E + C - T).
C7_ExcessIsUpdatedByTarget ==
    ~calc.nil =>
        GetExcessGas(calc) = Max(0, block.excess + block.cumulated - block.target)

\* C8: the gas price of a Calculator built by NewUpdatedManager is
\* fakeExponential(MinGasPrice, excess', UpdateDenominator), excess' being
\* the updated excess max(0, E - T), which is also the excess gas the
\* Calculator holds.
C8_PriceOfHeldExcess ==
    (last.op = "NewUpdatedManager" /\ last.err = "nil") =>
        LET updated == Max(0, block.excess - block.target)
        IN /\ GetGasPrice(calc) =
                  fakeExponential(feesConfig.MinGasPrice, updated,
                                  feesConfig.UpdateDenominator).value
           /\ GetExcessGas(calc) = updated

\* C9: starting from excess gas 0, while every block consumes exactly its
\* target gas, the excess gas is 0 after every block and the gas price of
\* every block is MinGasPrice.
C9_ExcessStaysZeroOnTarget ==
    onTarget =>
        /\ chainExcess = 0
        /\ ~calc.nil => GetGasPrice(calc) = feesConfig.MinGasPrice

(***************************************************************************)
(* Properties of the leaky bucket.                                         *)
(***************************************************************************)

\* C6: for every validated config, current capacity and pair of block
\* times with child not before parent, GasCap returns
\* min(MaxGasPerSecond, gas_cap + MaxGasPerSecond * min(D, LeakGasCoeff) /
\* LeakGasCoeff), D being the elapsed whole seconds, the formula evaluated
\* without uint64 wrap-around.
C6_GasCapLeakFormula ==
    (bucket.op = "GasCap" /\ bucket.preTime <= bucket.arg) =>
        LET delta == Unix(bucket.arg) - Unix(bucket.preTime)
            leak == feesConfig.LeakGasCoeff
        IN /\ bucket.err = "nil"
           /\ bucket.result =
                  Min(feesConfig.MaxGasPerSecond,
                      bucket.pre
                      + (feesConfig.MaxGasPerSecond * Min(delta, leak)) \div leak)

(***************************************************************************)
(* Properties of fakeExponential.                                          *)
(***************************************************************************)

\* C10 (as claimed): for every MinGasPrice f and every UpdateDenominator d,
\* the gas price computed for excess gas 0 is f.
C10_ZeroExcessAnyDenominator ==
    (expOut.done /\ expIn.n = 0) =>
        /\ ~expOut.panic
        /\ expOut.value = expIn.f

\* C10 (amended): for every MinGasPrice f and every UpdateDenominator
\* d > 0, the gas price computed for excess gas 0 is f; with d = 0
\* fakeExponential panics on the division by zero.
C10_ZeroExcessGivesMinGasPrice ==
    (expOut.done /\ expIn.n = 0) =>
        IF expIn.d > 0
            THEN ~expOut.panic /\ expOut.value = expIn.f
        ELSE expOut.panic

\* fakeExponential returned for excess 0, a positive factor and a
\* denominator above 1.
C10_Witness ==
    /\ expOut.done
    /\ ~expOut.panic
    /\ expIn.n = 0
    /\ expIn.f > 0
    /\ expIn.d > 1

\* C11: the gas price is monotone non-decreasing in the excess gas: for one
\* factor f, one denominator d and excess values n1 <= n2, whenever the two
\* calls return, fakeExponential(f, n1, d) <= fakeExponential(f, n2, d).
C11_PriceMonotoneInExcess ==
    (expPair.done /\ ~expPair.out1.panic /\ ~expPair.out2.panic)
        => expPair.out1.value <= expPair.out2.value

\* Two calls of which the one with the larger excess saturates at the uint64
\* maximum and the other does not.
C11_Witness ==
    /\ expPair.done
    /\ expPair.d > 1
    /\ expPair.n1 < expPair.n2
    /\ expPair.out1.value < expPair.out2.value
    /\ expPair.out1.value > expPair.f
    /\ expPair.out2.value = MaxUint64

\* The sum of the terms a_1 = f * d, a_(i+1) = floor(floor(a_i * n / d) / i)
\* up to the first zero term, from the term a of index i on.
RECURSIVE TaylorSum(_, _, _, _)
TaylorSum(a, n, d, i) ==
    IF a = 0 THEN 0
    ELSE a + TaylorSum(((a * n) \div d) \div i, n, d, i + 1)

\* C12: for every factor f, numerator n and denominator d > 0 the loop of
\* fakeExponential terminates, and the value returned is
\* min(uint64 maximum, floor(S / d)), S being the sum of the terms.
C12_TerminatesWithTruncatedSum ==
    /\ [](loop.pc = "done"
            => loop.result = Min(MaxUint64,
                                 TaylorSum(loop.f * loop.d, loop.n, loop.d, 1) \div loop.d))
    /\ ((loop.pc = "loop" /\ loop.d > 0) ~> (loop.pc = "done"))

\* A run of more than three iterations that returned a value below the
\* uint64 maximum.
C12_Witness ==
    /\ loop.pc = "done"
    /\ loop.i > 4
    /\ loop.n > loop.d
    /\ loop.result < MaxUint64
    /\ loop.result > loop.f

(***************************************************************************)
(* Properties of the block time checks.                                    *)
(***************************************************************************)
\* C13: for block times with the child not before the parent, TargetGas
\* returns GasTargetRate * elapsed whole seconds when the product fits in
\* uint64 and the uint64 maximum otherwise, never a wrapped-around value.
C13_TargetGasSaturates ==
    (timeCall.target.done /\ timeCall.parent <= timeCall.child)
        => LET elapsed == Unix(timeCall.child) - Unix(timeCall.parent)
               product == timeCall.cfg.GasTargetRate * elapsed
           IN /\ timeCall.target.err = "nil"
              /\ timeCall.target.gas = IF product <= MaxUint64 THEN product ELSE MaxUint64

\* A call whose product does not fit in uint64.
C13_Witness ==
    /\ timeCall.target.done
    /\ timeCall.parent < timeCall.child
    /\ timeCall.cfg.GasTargetRate < MaxUint64
    /\ timeCall.cfg.GasTargetRate * (Unix(timeCall.child) - Unix(timeCall.parent)) > MaxUint64
    /\ timeCall.target.gas = MaxUint64

\* C14: when the child block time is strictly before the parent block time,
\* GasCap, TargetGas and NewUpdatedManager each return the block time error
\* with zero gas, respectively no Calculator; when the child time is equal to
\* or after the parent time, none of them returns that error.
C14_ChildBeforeParentRejected ==
    LET before == timeCall.child < timeCall.parent
    IN /\ timeCall.target.done
           => IF before
                  THEN /\ timeCall.target.err = "unexpected block times"
                       /\ timeCall.target.gas = ZeroGas
              ELSE timeCall.target.err # "unexpected block times"
       /\ timeCall.cap.done
           => IF before
                  THEN /\ timeCall.cap.err = "errUnexpectedBlockTimes"
                       /\ timeCall.cap.gas = ZeroGas
              ELSE timeCall.cap.err # "errUnexpectedBlockTimes"
       /\ timeCall.manager.done
           => IF before
                  THEN /\ timeCall.manager.err = "failed calculating target gas"
                       /\ timeCall.manager.calc = NilCalculator
              ELSE timeCall.manager.err # "failed calculating target gas"

\* The three calls made for a child block less than a second before its
\* parent, both in the same whole second.
C14_Witness ==
    /\ timeCall.target.done
    /\ timeCall.cap.done
    /\ timeCall.manager.done
    /\ timeCall.child < timeCall.parent
    /\ Unix(timeCall.child) = Unix(timeCall.parent)
    /\ timeCall.manager.calc.nil

(***************************************************************************)
(* Properties of fee.Dimensions.                                           *)
(***************************************************************************)
\* The sum of the first i products of d and w, as a natural number.
RECURSIVE WeightedSum(_, _, _)
WeightedSum(d, w, i) ==
    IF i = 0 THEN 0 ELSE WeightedSum(d, w, i - 1) + d[i] * w[i]

\* A product or a partial sum of d and w does not fit in uint64.
Overflows(d, w) ==
    \E i \in DimensionIndices :
        \/ d[i] * w[i] > MaxUint64
        \/ WeightedSum(d, w, i) > MaxUint64

\* ToGas applied to d and w returned r as the claim says.
ToGasAsClaimed(d, w, r) ==
    IF Overflows(d, w)
        THEN r.err # "nil" /\ r.gas = 0
    ELSE r.err = "nil" /\ r.gas = WeightedSum(d, w, NumDimensions)

\* C15: ToGas is the weighted sum of the four dimensions and is additive:
\* where nothing overflows, ToGas(Add(a, b), w) = ToGas(a, w) + ToGas(b, w);
\* when a product or a partial sum overflows, ToGas returns an error with
\* gas 0.
C15_ToGasWeightedSumAdditive ==
    dims.done
        => /\ ToGasAsClaimed(dims.a, dims.w, dims.gasA)
           /\ ToGasAsClaimed(dims.b, dims.w, dims.gasB)
           /\ dims.sum.err = "nil" => ToGasAsClaimed(dims.sum.d, dims.w, dims.gasSum)
           /\ (/\ dims.sum.err = "nil"
               /\ dims.gasA.err = "nil"
               /\ dims.gasB.err = "nil"
               /\ dims.gasSum.err = "nil")
                  => dims.gasSum.gas = dims.gasA.gas + dims.gasB.gas

\* Two complexities, one of them with a unit in a dimension of weight 2, that
\* are added and priced without overflow, their gas summing to the uint64
\* maximum.
C15_Witness ==
    /\ dims.done
    /\ dims.sum.err = "nil"
    /\ dims.gasSum.err = "nil"
    /\ dims.gasA.gas > 0
    /\ dims.gasB.gas > dims.gasA.gas
    /\ dims.gasSum.gas = MaxUint64
    /\ \E i \in DimensionIndices : dims.w[i] = 2 /\ dims.b[i] = 1

(***************************************************************************)
(* Properties of lru.SizedCache.                                           *)
(***************************************************************************)
\* The sum of size(key, value) over the entries of elements.
RECURSIVE TotalSize(_)
TotalSize(elements) ==
    IF elements = <<>> THEN 0
    ELSE size(Head(elements).key, Head(elements).value) + TotalSize(Tail(elements))

\* C20: after any sequence of Put, Get, Evict and Flush calls the sum of
\* size(key, value) over the entries the cache holds is at most maxSize,
\* also when Put replaces the value of a key that is already present.
C20_TotalSizeWithinMaxSize ==
    TotalSize(cache.elements) <= cache.maxSize

(***************************************************************************)
(* Properties of the Preference Tree and the Decision Machine.             *)
(***************************************************************************)
\* Accept(b) is the i-th event emitted.
AcceptedAt(b, i) ==
    /\ i \in 1 .. Len(engine.events)
    /\ engine.events[i].kind = "Accept"
    /\ engine.events[i].block = b

\* C16: when Accept(b) is emitted, every ancestor of b back to the genesis
\* has been accepted before that event; and an attempt to accept a block
\* whose parent is not accepted aborts the engine and accepts nothing.
C16_AncestorsAcceptedFirst ==
    /\ \A i \in 1 .. Len(engine.events) :
           engine.events[i].kind = "Accept"
               => \A a \in EngineBlocks :
                      IsAncestor(a, engine.events[i].block)
                          => \E j \in 1 .. (i - 1) : AcceptedAt(a, j)
    /\ \A b \in EngineBlocks :
           engine.status[b] = "accepted"
               => /\ \E i \in 1 .. Len(engine.events) : AcceptedAt(b, i)
                  /\ Parent(b) = Genesis \/ engine.status[Parent(b)] = "accepted"
    /\ engine.attempted # Genesis
           => /\ engine.fatal
              /\ engine.status[engine.attempted] = "processing"
              /\ ~\E i \in 1 .. Len(engine.events) : AcceptedAt(engine.attempted, i)

\* A block accepted after its parent, the parent's sibling being rejected in
\* between.
C16_Witness ==
    /\ Len(engine.events) = 3
    /\ AcceptedAt(1, 1)
    /\ engine.events[2] = [kind |-> "Reject", block |-> 2, poll |-> engine.events[1].poll]
    /\ AcceptedAt(3, 3)
    /\ engine.events[3].poll > engine.events[1].poll

\* The first scenario of section 8: K = 5, alphaP = alphaC = 4, betaV = 2,
\* betaR = 3, and block 1 the only block added on the genesis.
SingleBlockScenario(e) ==
    /\ e.params = FinalizationParameters
    /\ \A b \in EngineBlocks \ {1} : e.status[b] = "unknown"

\* The poll {B:5} for block 1.
UnanimousPoll == [b \in EngineBlocks |-> IF b = 1 THEN 5 ELSE 0]

\* C19: a block on the preferred path is accepted exactly when its
\* confidence has reached betaV (virtuous) or betaR (rogue) and all its
\* ancestors are accepted, not earlier; in the single block scenario
\* Accept(B) is emitted by the second consecutive poll {B:5}, not by the
\* first, and leaves no block processing.
C19_AcceptedExactlyAtThreshold ==
    /\ [](\A b \in EngineBlocks :
              LET beta == IF engine.virtuous[b] THEN engine.params.BetaVirtuous
                          ELSE engine.params.BetaRogue
              IN /\ engine.status[b] = "accepted"
                     => /\ engine.confidence[b] >= beta
                        /\ Parent(b) = Genesis \/ engine.status[Parent(b)] = "accepted"
                 /\ (/\ engine.status[b] = "processing"
                     /\ Parent(b) = engine.root
                     /\ b \in Path(engine.root, engine.preference[engine.root]))
                        => engine.confidence[b] < beta)
    /\ []((SingleBlockScenario(engine) /\ engine.polls <= 1)
              => engine.events = <<>>)
    /\ [][(/\ SingleBlockScenario(engine)
           /\ engine.status[1] = "processing"
           /\ engine.polls >= 1
           /\ engine.tally = UnanimousPoll
           /\ engine'.polls = engine.polls + 1
           /\ engine'.tally = UnanimousPoll)
              => /\ engine'.events = <<[kind |-> "Accept", block |-> 1,
                                        poll |-> engine'.polls]>>
                 /\ Processing(engine') = {}]_vars

\* The single block scenario after its second poll.
C19_Witness ==
    /\ SingleBlockScenario(engine)
    /\ engine.polls = 2
    /\ engine.tally = UnanimousPoll
    /\ engine.confidence[1] = 2
    /\ engine.virtuous[1]
    /\ engine.events = <<[kind |-> "Accept", block |-> 1, poll |-> 2]>>
    /\ Processing(engine) = {}

\* The scenario "preference flip" of section 8 before a poll: the siblings 1
\* and 2 are the blocks of the tree.
PreferenceFlipScenario(e) ==
    /\ e.params = PreferenceFlipParameters
    /\ Processing(e) = {1, 2}
    /\ e.status[3] = "unknown"

\* The polls {B1:1, B2:4} and {B2:5}.
FlipPoll == [b \in EngineBlocks |-> IF b = 1 THEN 1 ELSE IF b = 2 THEN 4 ELSE 0]

SupportPoll == [b \in EngineBlocks |-> IF b = 2 THEN 5 ELSE 0]

\* The nodes whose confidence a poll with tally votes adds to.
Supported(e, votes) ==
    {n \in EngineBlocks :
        \E bc \in Processing(e) :
            /\ votes[bc] >= e.params.AlphaConfidence
            /\ n = bc \/ IsAncestor(n, bc)}

C18_DeliveredIsOpenedInOrder ==
    /\ [](/\ Len(sched.delivered) <= Len(sched.polls)
          /\ \A i \in 1 .. Len(sched.polls) : sched.polls[i].requestID = i
          /\ \A i \in 1 .. Len(sched.delivered) :
                 /\ sched.delivered[i] = sched.polls[i]
                 /\ sched.delivered[i].state = "CLOSED")
    /\ [][/\ \A i \in 1 .. Len(sched.polls) :
                 sched.polls[i].state = "CLOSED" => sched'.polls[i] = sched.polls[i]
          /\ \A i \in 1 .. Len(sched.delivered) :
                 sched'.delivered[i] = sched.delivered[i]]_vars
    /\ \A i \in 1 .. MaxSchedPolls :
           (Len(sched.polls) >= i) ~> (Len(sched.delivered) >= i)

\* Two polls delivered, the first of them timed out with zero responses
\* while the second was closed by its responses.
C18_Witness ==
    /\ Len(sched.delivered) >= 2
    /\ sched.K = 2
    /\ sched.delivered[1].votes = 0
    /\ sched.delivered[1].failures = 2
    /\ sched.delivered[2].votes = 2

\* C21: SizedCache evicts in least-recently-used order: every entry a Put
\* removes was used (put, or found by Get) less recently than every entry
\* that remains, and the key put is held after a Put whose entry size is at
\* most maxSize.
C21_PutEvictsLeastRecentlyUsed ==
    [][cache'.last.op = "Put"
          => /\ \A r \in cache'.last.removed :
                    \A m \in Keys(cache'.elements) \ {cache'.last.key} :
                        cache.used[r] < cache.used[m]
             /\ size(cache'.last.key, cache'.last.value) <= cache'.maxSize
                    => /\ cache'.last.key \in Keys(cache'.elements)
                       /\ HashmapGet(cache'.elements, cache'.last.key).value
                              = cache'.last.value]_vars

\* A Put that removed the least recently used of three keys, the first key
\* having been found by a Get after the second was put.
C21_Witness ==
    /\ cache.last.op = "Put"
    /\ cache.last.key = 3
    /\ cache.last.removed = {2}
    /\ Keys(cache.elements) = {1, 3}
    /\ cache.used[1] > cache.used[2]
    /\ cache.used[2] > 1

\* C27: currentSize is the sum of size(key, value) over the entries stored
\* and is never negative; it is 0 after Flush and after a Put whose entry
\* size exceeds maxSize, which empties the cache.
C27_CurrentSizeIsTotalSize ==
    /\ cache.currentSize = TotalSize(cache.elements)
    /\ cache.currentSize >= 0
    /\ (\/ cache.last.op = "Flush"
        \/ cache.last.op = "Put" /\ size(cache.last.key, cache.last.value) > cache.maxSize)
           => cache.currentSize = 0 /\ cache.elements = <<>>

(***************************************************************************)
(* Further properties of the parameter contract.                           *)
(***************************************************************************)
\* The conditions of a valid parameter set in the order Verify names them,
\* each with whether p satisfies it (k/2 by Go's truncating division).
Conditions(p) ==
    << [cond |-> "k/2 < alphaPreference", holds |-> GoDiv(p.K, 2) < p.AlphaPreference],
       [cond |-> "alphaPreference <= alphaConfidence",
        holds |-> p.AlphaPreference <= p.AlphaConfidence],
       [cond |-> "alphaConfidence <= k", holds |-> p.AlphaConfidence <= p.K],
       [cond |-> "0 < betaVirtuous", holds |-> 0 < p.BetaVirtuous],
       [cond |-> "betaVirtuous <= betaRogue", holds |-> p.BetaVirtuous <= p.BetaRogue],
       [cond |-> "0 < concurrentRepolls", holds |-> 0 < p.ConcurrentRepolls],
       [cond |-> "concurrentRepolls <= betaRogue",
        holds |-> p.ConcurrentRepolls <= p.BetaRogue],
       [cond |-> "0 < optimalProcessing", holds |-> 0 < p.OptimalProcessing],
       [cond |-> "0 < maxOutstandingItems", holds |-> 0 < p.MaxOutstandingItems],
       [cond |-> "0 < maxItemProcessingTime", holds |-> 0 < p.MaxItemProcessingTime] >>

Violated(p) == {i \in 1 .. Len(Conditions(p)) : ~Conditions(p)[i].holds}

\* C22: when a parameter set violates several conditions, Verify reports the
\* first violated condition of the fixed order; K = 20 with
\* AlphaPreference = 9 is reported as "k/2 < alphaPreference" whatever the
\* other fields are.
C22_FirstViolatedConditionReported ==
    verifyErr # NotVerified =>
        /\ Violated(params) # {}
               => LET first == CHOOSE i \in Violated(params) :
                                   \A j \in Violated(params) : i <= j
                  IN /\ verifyErr.kind = "ErrParametersInvalid"
                     /\ verifyErr.cond = Conditions(params)[first].cond
        /\ (params.K = 20 /\ params.AlphaPreference = 9)
               => /\ verifyErr.kind = "ErrParametersInvalid"
                  /\ verifyErr.cond = "k/2 < alphaPreference"

\* K = 20 and AlphaPreference = 9 verified with four more conditions violated.
C22_Witness ==
    /\ verifyErr.kind = "ErrParametersInvalid"
    /\ verifyErr.cond = "k/2 < alphaPreference"
    /\ params.K = 20
    /\ params.AlphaPreference = 9
    /\ Cardinality(Violated(params)) >= 5

\* Verify without the Easter egg case.
VerifyWithoutEasterEgg(p) ==
    IF Violated(p) = {} THEN NoError
    ELSE ParametersInvalid(
             Conditions(p)[CHOOSE i \in Violated(p) : \A j \in Violated(p) : i <= j].cond)

\* C23: the Easter egg is advisory only: a Verify without that case accepts
\* and rejects the same parameter sets and reports the same violated
\* condition, betaVirtuous <= betaRogue for the sets the Easter egg catches.
C23_EasterEggAdvisoryOnly ==
    verifyErr # NotVerified =>
        /\ verifyErr.kind = VerifyWithoutEasterEgg(params).kind
        /\ verifyErr.cond = VerifyWithoutEasterEgg(params).cond
        /\ verifyErr.egg
               => /\ params.BetaRogue = EasterBetaRogue
                  /\ params.BetaVirtuous = EasterBetaVirtuous
                  /\ verifyErr.cond = "betaVirtuous <= betaRogue"

\* A parameter set the Easter egg caught.
C23_Witness ==
    /\ verifyErr.egg
    /\ params.BetaRogue = EasterBetaRogue
    /\ params.BetaVirtuous = EasterBetaVirtuous
    /\ verifyErr.cond = "betaVirtuous <= betaRogue"
    /\ VerifyWithoutEasterEgg(params).kind = "ErrParametersInvalid"

\* C30: every parameter set Verify accepts has K >= 1 and
\* AlphaPreference >= 1, zero and negative K being rejected.
C30_AcceptedParametersArePositive ==
    /\ verifyErr.kind = "nil" => (params.K >= 1 /\ params.AlphaPreference >= 1)
    /\ (verifyErr # NotVerified /\ params.K <= 0) => verifyErr.kind = "ErrParametersInvalid"

\* The smallest parameters Verify accepts.
C30_Witness ==
    /\ verifyErr.kind = "nil"
    /\ params.K = 1
    /\ params.AlphaPreference = 1

(***************************************************************************)
(* Further properties of the Calculator.                                   *)
(***************************************************************************)
\* C25: a RemoveGas(g) that follows a successful CumulateGas(g) succeeds and
\* restores block_gas and excess gas to their values before the
\* CumulateGas; a RemoveGas(g) with g greater than block_gas returns an
\* error and changes neither value.
C25_RemoveGasUndoesCumulateGas ==
    /\ [][(/\ last.op = "CumulateGas"
           /\ last.err = "nil"
           /\ last'.op = "RemoveGas"
           /\ last'.arg = last.arg)
              => /\ last'.err = "nil"
                 /\ calc'.blockGas = last.pre.blockGas
                 /\ calc'.currentExcessGas = last.pre.currentExcessGas]_vars
    /\ [][(/\ ~calc.nil
           /\ last'.op = "RemoveGas"
           /\ last'.arg > calc.blockGas)
              => /\ last'.err # "nil"
                 /\ calc'.blockGas = calc.blockGas
                 /\ calc'.currentExcessGas = calc.currentExcessGas]_vars

\* A RemoveGas(2) succeeded on a Calculator that was built with excess gas
\* and held 3 gas, as after CumulateGas(1) and CumulateGas(2).
C25_Witness ==
    /\ last.op = "RemoveGas"
    /\ last.err = "nil"
    /\ last.arg = 2
    /\ last.pre.blockGas = 3
    /\ calc.blockGas = 1
    /\ calc.currentExcessGas = block.excess + 1
    /\ block.excess > 0

\* C26: on a Calculator the difference excess gas - block_gas is after every
\* CumulateGas and RemoveGas call what it was at construction, and RemoveGas
\* never takes its excess gas underflow branch.
C26_ExcessMinusBlockGasConstant ==
    /\ [](~calc.nil => calc.currentExcessGas - calc.blockGas = block.excess)
    /\ [][(~calc.nil /\ ~calc'.nil)
              => calc'.currentExcessGas - calc'.blockGas
                     = calc.currentExcessGas - calc.blockGas]_vars
    /\ [](last.op = "RemoveGas" => last.err # "underflow: current Excess gas")

\* A RemoveGas passed the block_gas check on a Calculator built with excess
\* gas and left gas in the block.
C26_Witness ==
    /\ last.op = "RemoveGas"
    /\ last.err = "nil"
    /\ last.arg > 0
    /\ calc.blockGas > 0
    /\ calc.currentExcessGas > calc.blockGas

(***************************************************************************)
(* Further properties of the leaky bucket.                                 *)
(***************************************************************************)
\* C28: across the blocks of a chain, each refilling the bucket with GasCap
\* and draining it with UpdateGasCap, the capacity offered to a block lies
\* in [0, MaxGasPerSecond]: GasCap returns at most MaxGasPerSecond whatever
\* the capacity and the elapsed time, also when the sum of the leak formula
\* overflows, and UpdateGasCap returns cap - blockGas, or 0 when blockGas
\* exceeds cap, never a wrapped-around value.
C28_CapacityWithinMaxGasPerSecond ==
    /\ bucket.op = "GasCap"
           => /\ bucket.result >= 0
              /\ bucket.result <= feesConfig.MaxGasPerSecond
    /\ bucket.op = "UpdateGasCap"
           => /\ bucket.pre <= feesConfig.MaxGasPerSecond
              /\ bucket.result = IF bucket.arg >= bucket.pre THEN 0
                                 ELSE bucket.pre - bucket.arg
              /\ bucket.result <= bucket.pre
    /\ (bucket.op = "UpdateGasCap" \/ (bucket.op = "GasCap" /\ bucket.err = "nil"))
           => /\ bucket.capacity = bucket.result
              /\ bucket.capacity >= 0
              /\ bucket.capacity <= feesConfig.MaxGasPerSecond

\* GasCap was called for a later block of the chain with a capacity and an
\* elapsed time whose leak formula does not fit in a uint64.
C28_Witness ==
    /\ bucket.op = "GasCap"
    /\ bucket.err = "nil"
    /\ bucket.preTime > 0
    /\ bucket.pre > 0
    /\ Unix(bucket.arg) - Unix(bucket.preTime) <= feesConfig.LeakGasCoeff
    /\ bucket.pre + (feesConfig.MaxGasPerSecond
                        * (Unix(bucket.arg) - Unix(bucket.preTime)))
                       \div feesConfig.LeakGasCoeff > MaxUint64
    /\ bucket.result <= feesConfig.MaxGasPerSecond

(***************************************************************************)
(* Properties of the subprocess initializer.                               *)
(***************************************************************************)
\* The error Initialize records for a call with protocol version v.
ErrorOf(v) ==
    IF v = initializer.rpcChainVMProtocolVer THEN NilError
    ELSE [kind |-> "errProtocolVersionMismatchDetails",
          vmLocationRpcChainVMProtocolVer |-> v]

\* C29: under every interleaving of concurrent Initialize calls only the
\* call that runs the function of the Once takes effect: the initialized
\* channel is closed once and never twice, vmAddr and the recorded error
\* are those of that call and do not change afterwards, and every call
\* returns that error, nil iff that call's protocol version matched.
C29_OnlyFirstInitializeTakesEffect ==
    /\ [](/\ ~initializer.panic
          /\ initializer.closes <= 1
          /\ initializer.closes = 1 => initializer.first # 0)
    /\ []((initializer.started /\ initializer.done)
              => /\ initializer.closes = 1
                 /\ initializer.vmAddr = initializer.first
                 /\ initializer.err
                        = ErrorOf(initializer.protocolVersion[initializer.first]))
    /\ [](\A c \in Callers :
              initializer.pc[c] = "returned"
                  => /\ initializer.ret[c]
                            = ErrorOf(initializer.protocolVersion[initializer.first])
                     /\ (initializer.ret[c].kind = "nil")
                            <=> (initializer.protocolVersion[initializer.first]
                                     = initializer.rpcChainVMProtocolVer))
    /\ [][initializer.done
              => /\ initializer'.vmAddr = initializer.vmAddr
                 /\ initializer'.err = initializer.err
                 /\ initializer'.closes = initializer.closes
                 /\ initializer'.first = initializer.first]_vars

\* Every call has returned the error of the call of goroutine 2, which ran
\* the function; the call of goroutine 1 had the matching protocol version.
C29_Witness ==
    /\ \A c \in Callers : initializer.pc[c] = "returned"
    /\ initializer.first = 2
    /\ initializer.protocolVersion[1] = initializer.rpcChainVMProtocolVer
    /\ initializer.protocolVersion[2] # initializer.rpcChainVMProtocolVer
    /\ initializer.ret[1].kind = "errProtocolVersionMismatchDetails"
    /\ initializer.ret[3] = initializer.ret[1]
    /\ initializer.vmAddr = 2
    /\ initializer.closes = 1

====
